---- MODULE Spec2Model ----
(***************************************************************************)
(* dropbox-ignore-daemon: the Event Watcher (internal/watcher), the        *)
(* Incremental Scanner (internal/poller), the dedup cache (internal/state),*)
(* the Matcher (internal/matcher) and the decision handler built by        *)
(* createHandler (cmd/dbxignore).                                          *)
(*                                                                         *)
(* Sixteen state machines share the module:                                *)
(*   SpecW  the Watcher's Run loop with its debounce buffer, on a discrete *)
(*          clock whose unit is 25ms (Debounce 100ms, FlushInterval 50ms); *)
(*   SpecF  the same with the outcome of every Handler call on record;     *)
(*   SpecR  Run with source errors, cancellation and Close();              *)
(*   SpecL  Run under fair scheduling;                                     *)
(*   SpecK  the Poller while SetSkipDir is called from another goroutine;  *)
(*   SpecP  the Poller's Run loop and Scan walk over a small file tree     *)
(*          that changes, the Handler an opaque callback;                  *)
(*   SpecE  the Poller's walk with the Handler's errors on record, over a  *)
(*          tree whose entries vanish;                                     *)
(*   SpecA  Watcher.AddRecursive, with w.Add failing at will;              *)
(*   SpecS  serve: both Run loops under the one cancellation token;        *)
(*   SpecX  serve from AddRecursive on, with the errors that are absorbed; *)
(*   SpecO  serve to its return, under fair scheduling;                    *)
(*   SpecN  the Watcher while directories appear below the watched ones;   *)
(*   SpecD  the Watcher while a directory and its subdirectory appear;     *)
(*   SpecH  createHandler's closure, invoked by the Scanner and by the     *)
(*          Watcher concurrently, on a clock whose unit is 30s;            *)
(*   SpecC  the dedup cache under a client of its own, same clock;         *)
(*   SpecM  the Matcher's pattern cache under a client of its own.         *)
(* Paths are written relative to the monitored root: << >> is the root,    *)
(* <<"a", "x.log">> is <root>/a/x.log.                                     *)
(***************************************************************************)
EXTENDS Integers, Sequences, FiniteSets, TLC

VARIABLES
    now,        \* the wall clock (time.Now), in ticks; 0 is Go's zero time.Time
    cancelled,  \* the context handed to Run has been cancelled
    fs,         \* the file tree: path -> [exists, mtime, ino]
    nfsops,     \* file-tree mutations made so far (bounded by MaxFsOps)
    spc,        \* where serve is: select, wait (wg.Wait), returned
    rootName,   \* the base name of the monitored root directory
    addrec,     \* serve's call of w.AddRecursive: [pc, todo, ret, failed]
    \* ---- Watcher (internal/watcher)
    wpc,        \* where Watcher.Run is: init, select, batch, handling, done
    wret,       \* what Watcher.Run returned
    wevents,    \* w.watcher.Events: raw notifications not yet received
    werrs,      \* w.watcher.Errors: errors not yet received
    wclosed,    \* Close() has closed the notification source
    pending,    \* w.pending: path -> Event
    toProcess,  \* flushPending's batch still to be handed to the Handler
    wcur,       \* the event whose Handler call is executing
    tickC,      \* flushTicker.C holds a tick (a Ticker's channel buffers one)
    nextTick,   \* when flushTicker fires next
    watches,    \* directories registered with w.watcher.Add
    probes,     \* paths whose Create probe goroutine has not run yet
    wprobed,    \* path -> how w.Add ended in the last probe that called it
    \* ---- Watcher bookkeeping (history, read by the properties only)
    wsent,      \* raw notifications emitted so far (bounded by MaxNotify)
    wburst,     \* path -> the notifications folded into its pending entry
    wopened,    \* path -> how often a pending entry was created afresh
    wcalls,     \* the Handler invocations made by flushPending, in order
    stalled,    \* the clock has advanced while a Handler call was executing
    \* ---- Poller (internal/poller)
    ppc,        \* where Poller.Run is: init, walk (inside Scan), select, done
    pret,       \* what Poller.Run returned
    ptickC,     \* Run's ticker.C holds a tick
    lastScan,   \* p.lastScan
    dirModTime, \* p.dirModTime: directory -> modification time
    skipDirs,   \* p.skipDirs: the names Scan does not descend into
    setter,     \* a caller of p.SetSkipDir: [pc, name, skip, n]
    lastScanL,  \* Scan's local lastScan: p.lastScan as Scan found it
    visitedDirs,\* Scan's local visitedDirs
    todo,       \* the entries filepath.WalkDir has still to visit, in order
    \* ---- Poller bookkeeping (history, read by the properties only)
    nscan,      \* Scans started so far (bounded by MaxScans)
    phandled,   \* the paths handed to the Handler in the current Scan, in order
    pskipRet,   \* the directories the Handler answered ErrSkipDir for, this Scan
    perrRet,    \* the directories the Handler answered another error for, this Scan
    pwalkErr,   \* Scan's err: what filepath.WalkDir returned, what Scan returns
    pquiet,     \* the tree has not been mutated since the current Scan began
    pafter,     \* the current Scan called the Handler after cancellation
    dirModTimeL \* p.dirModTime as it was when the current Scan started

\* the Decision Handler (createHandler), the dedup cache, the attribute store
VARIABLES
    hpc,        \* per component: where its Handler invocation stands
    hpath,      \* per component: the path it was invoked for
    hinfo,      \* per component: the FileInfo it was invoked with
    xattr,      \* the paths that carry the ignore attribute
    cache,      \* Cache.entries: path -> [Inode, Mtime, Added]
    dryRun,     \* cfg.dryRun
    ncalls,     \* Handler invocations started
    \* history, for the properties
    nfail,      \* failures of the matcher or the attribute store so far
    hsets,      \* per component and path: SetIgnored calls that succeeded
    hdone,      \* per component and path: invocations that have returned
    hrets,      \* the values invocations have returned
    \* ---- a client of the Cache alone (state_test.go)
    clook,      \* its last Has call: [path, info, at, ret]
    cadds,      \* path -> [info, at] of its last Add, until it calls Remove
    \* ---- the Matcher (internal/matcher) under a client of its own
    ignf,       \* the .dropboxignore files: [content: directory -> lines, writes]
    mcache,     \* m.cache: [key, pats] records, least recently used first
    mlook       \* the last ShouldIgnore call: [path, file, hit, ret]

wvars == <<wpc, wret, wevents, werrs, wclosed, pending, toProcess, wcur, tickC,
           nextTick, watches, probes, wprobed, wsent, wburst, wopened, wcalls, stalled>>
pvars == <<ppc, pret, ptickC, lastScan, dirModTime, skipDirs, setter, lastScanL, dirModTimeL,
           visitedDirs, todo, nscan, phandled, pskipRet, perrRet, pwalkErr, pquiet, pafter>>
hvars == <<hpc, hpath, hinfo, xattr, cache, dryRun, ncalls, nfail, hsets, hdone,
          hrets, clook, cadds, ignf, mcache, mlook>>
envvars == <<now, cancelled, fs, nfsops, spc, rootName, addrec>>
vars == <<envvars, wvars, pvars, hvars>>

----------------------------------------------------------------------------
(* Bounds of the model. *)
MaxTime == 8        \* SpecW's clock stops here
MaxNotify == 3      \* raw notifications emitted in one behaviour
MaxErrs == 1        \* errors waiting in the Errors channel
MaxFsOps == 1       \* file-tree mutations in one behaviour
MaxClock == 3       \* SpecP's clock stops here
MaxScans == 3       \* Scans started in one behaviour
MaxCalls == 3       \* Handler invocations started in one behaviour of SpecH
MaxServeNotify == 1 \* raw notifications in one behaviour of SpecS
MaxServeScans == 2  \* Scans started in one behaviour of SpecS
MaxServeTime == 6   \* SpecS's clock stops here
MaxDirOps == 2      \* directory and file creations and removals in SpecN
MaxDirTime == 5     \* SpecN's clock stops here
MaxRunNotify == 2   \* raw notifications in one behaviour of SpecR
MaxRunTime == 6     \* SpecR's clock stops here
MaxLiveNotify == 2  \* raw notifications in one behaviour of SpecL
MaxLiveTime == 7    \* SpecL's clock stops here
MaxSetCalls == 2    \* calls of SetSkipDir in one behaviour of SpecK
MaxIgnoreWrites == 2  \* writes of ignore files in one behaviour of SpecM

(* Configuration, in clock ticks of 25ms. *)
Debounce == 4       \* Config.Debounce: 100ms
FlushInterval == 2  \* Config.FlushInterval: 50ms

----------------------------------------------------------------------------
(* The file tree.  Universe lists every path that can exist, parents       *)
(* before children and siblings in the lexical order os.ReadDir returns.   *)
Root == << >>
Universe ==
    << Root, <<".idea">>, <<".idea", "w">>,
       <<"a">>, <<"a", "b">>, <<"a", "b", "y">>, <<"a", "x.log">>,
       <<"f">>, <<"node_modules">>, <<"node_modules", "z">> >>
Paths == {Universe[i] : i \in 1..Len(Universe)}
Dirs == {Root, <<".idea">>, <<"a">>, <<"a", "b">>, <<"node_modules">>}
Files == Paths \ Dirs
IsDir(p) == p \in Dirs
(* the base name of the monitored root: NewPoller makes cfg.Root absolute, *)
(* so d.Name() of the root is the last element of its path ("r" stands    *)
(* for a plain name such as Dropbox, ".sync" for the root /home/u/.sync)  *)
RootNames == {"r", ".sync"}
Name(p) == IF p = Root THEN rootName ELSE p[Len(p)]
Parent(p) == SubSeq(p, 1, Len(p) - 1)
IsBelow(p, d) == Len(p) > Len(d) /\ SubSeq(p, 1, Len(d)) = d
Stat(p) == fs[p]
Exists(p) == fs[p].exists

(* strings.HasPrefix(name, "."): the names of the tree that begin with a dot *)
DottedNames == {".", ".git", ".dropbox.cache", ".svn", ".hg", ".idea", ".sync"}
HasDotPrefix(name) == name \in DottedNames

----------------------------------------------------------------------------
(* Watcher *)

Ops == {"Create", "Write", "Remove", "Rename", "Chmod"}
WPaths == {<<"a", "b">>, <<"a", "b", "y">>, <<"node_modules">>}
(* the raw notifications the source emits in the model *)
RawEvents ==
    { [Name |-> <<"a", "b">>, Op |-> {"Create"}],
      [Name |-> <<"a", "b">>, Op |-> {"Write"}],
      [Name |-> <<"a", "b">>, Op |-> {"Remove"}],
      [Name |-> <<"node_modules">>, Op |-> {"Create"}] }

IsRelevantOpAlways(op) == op # {}
(* event.Op&(fsnotify.Create|fsnotify.Write|fsnotify.Rename) != 0 *)
IsRelevantOp(op) == op \cap {"Create", "Write", "Rename"} # {}
WatcherSkipsNoName(name) == FALSE
(* the name test of handleEvent's probe goroutine *)
WatcherSkipsName(name) ==
    \/ name \in {"node_modules", ".git", ".dropbox.cache", ".svn", ".hg"}
    \/ (HasDotPrefix(name) /\ name # ".")

NoEvent == [Path |-> << "-" >>, Op |-> {}, Time |-> 0]

StorePendingKeepFirst(pend, ev, t) ==
    IF ev.Name \in DOMAIN pend THEN pend
    ELSE [q \in DOMAIN pend \cup {ev.Name} |->
            IF q = ev.Name THEN [Path |-> ev.Name, Op |-> ev.Op, Time |-> t]
            ELSE pend[q]]
StorePendingKeepTime(pend, ev, t) ==
    [q \in DOMAIN pend \cup {ev.Name} |->
        IF q # ev.Name THEN pend[q]
        ELSE [Path |-> ev.Name, Op |-> ev.Op,
              Time |-> IF q \in DOMAIN pend THEN pend[q].Time ELSE t]]
(* w.pending[event.Name] = Event{Path, Op, Time: time.Now()} *)
StorePending(pend, ev, t) ==
    [q \in DOMAIN pend \cup {ev.Name} |->
        IF q = ev.Name THEN [Path |-> ev.Name, Op |-> ev.Op, Time |-> t]
        ELSE pend[q]]

FlushDueByInterval(ev, t) == t - ev.Time >= FlushInterval
FlushDueExactly(ev, t) == t - ev.Time = Debounce
(* now.Sub(event.Time) >= w.debounce *)
FlushDue(ev, t) == t - ev.Time >= Debounce

TickerPeriodDebounce == Debounce
(* time.NewTicker(w.flush) *)
TickerPeriod == FlushInterval

RunSelectingAnytime == wpc \in {"select", "batch", "handling"}
(* Run is blocked in its select statement *)
RunSelecting == wpc = "select"

(* a raw notification is emitted by the notification source *)
Notify ==
    /\ wsent < MaxNotify
    /\ ~wclosed
    /\ wpc # "done"
    /\ \E ev \in RawEvents : wevents' = Append(wevents, ev)
    /\ wsent' = wsent + 1
    /\ UNCHANGED <<hvars, pvars, envvars, wpc, wret, werrs, wclosed, pending, toProcess, wcur,
                   tickC, nextTick, watches, probes, wprobed, wburst, wopened, wcalls,
                   stalled>>

(* the notification source reports an error *)
WatchError ==
    /\ werrs < MaxErrs
    /\ ~wclosed
    /\ wpc # "done"
    /\ werrs' = werrs + 1
    /\ UNCHANGED <<hvars, pvars, envvars, wpc, wret, wevents, wclosed, pending, toProcess, wcur,
                   tickC, nextTick, watches, probes, wprobed, wsent, wburst, wopened,
                   wcalls, stalled>>

(* Run is entered: the flush ticker is created *)
WatcherRunStart ==
    /\ wpc = "init"
    /\ wpc' = "select"
    /\ nextTick' = now + TickerPeriod
    /\ UNCHANGED <<hvars, pvars, envvars, wret, wevents, werrs, wclosed, pending, toProcess, wcur,
                   tickC, watches, probes, wprobed, wsent, wburst, wopened, wcalls,
                   stalled>>

(* the flush ticker fires; a tick that finds the channel full is dropped *)
TickerFire ==
    /\ wpc \in {"select", "batch", "handling"}
    /\ now = nextTick
    /\ tickC' = TRUE
    /\ nextTick' = nextTick + TickerPeriod
    /\ UNCHANGED <<hvars, pvars, envvars, wpc, wret, wevents, werrs, wclosed, pending, toProcess,
                   wcur, watches, probes, wprobed, wsent, wburst, wopened, wcalls,
                   stalled>>

(* case <-ctx.Done(): return ctx.Err() *)
WatcherRunCtxDone ==
    /\ RunSelecting
    /\ cancelled
    /\ wpc' = "done"
    /\ wret' = "Canceled"
    /\ UNCHANGED <<hvars, pvars, envvars, wevents, werrs, wclosed, pending, toProcess, wcur,
                   tickC, nextTick, watches, probes, wprobed, wsent, wburst, wopened,
                   wcalls, stalled>>

RunReturnsOnClosedErr == "closed"
(* what Run returns when a receive reports a closed channel *)
RunReturnsOnClosed == "nil"

(* case event, ok := <-w.watcher.Events / err, ok := <-w.watcher.Errors,   *)
(* with ok false: return nil                                                *)
WatcherRunClosed ==
    /\ RunSelecting
    /\ wclosed
    /\ wpc' = "done"
    /\ wret' = RunReturnsOnClosed
    /\ UNCHANGED <<hvars, pvars, envvars, wevents, werrs, wclosed, pending, toProcess, wcur,
                   tickC, nextTick, watches, probes, wprobed, wsent, wburst, wopened,
                   wcalls, stalled>>

MuHeldInBatch == wpc \in {"batch", "handling"}
(* w.mu is locked while Run stands between two of its steps: never, since  *)
(* handleEvent's deferred Unlock has run when it returns and flushPending  *)
(* calls Unlock before its Handler loop                                     *)
MuHeld == FALSE

(* handleEvent: the body run for a received notification ev *)
handleEvent(ev) ==
    IF ~IsRelevantOp(ev.Op)
    THEN UNCHANGED <<pending, probes, wburst, wopened>>
    ELSE /\ pending' = StorePending(pending, ev, now)
         /\ wburst' =
              [q \in DOMAIN wburst \cup {ev.Name} |->
                 IF q # ev.Name THEN wburst[q]
                 ELSE IF q \in DOMAIN wburst
                      THEN [wburst[q] EXCEPT !.n = @ + 1, !.last = now]
                      ELSE [first |-> now, last |-> now, n |-> 1]]
         /\ wopened' =
              IF ev.Name \in DOMAIN wburst THEN wopened
              ELSE [wopened EXCEPT ![ev.Name] = @ + 1]
         /\ probes' = IF "Create" \in ev.Op THEN probes \cup {ev.Name} ELSE probes

(* case event, ok := <-w.watcher.Events: w.handleEvent(event) *)
WatcherRunEvent ==
    /\ RunSelecting
    /\ ~wclosed
    /\ wevents # << >>
    /\ ~MuHeld
    /\ handleEvent(Head(wevents))
    /\ wevents' = Tail(wevents)
    /\ UNCHANGED <<hvars, pvars, envvars, wpc, wret, werrs, wclosed, toProcess, wcur, tickC,
                   nextTick, watches, wprobed, wsent, wcalls, stalled>>

(* case err, ok := <-w.watcher.Errors: log *)
WatcherRunError ==
    /\ RunSelecting
    /\ ~wclosed
    /\ werrs > 0
    /\ werrs' = werrs - 1
    /\ UNCHANGED <<hvars, pvars, envvars, wpc, wret, wevents, wclosed, pending, toProcess, wcur,
                   tickC, nextTick, watches, probes, wprobed, wsent, wburst, wopened,
                   wcalls, stalled>>

ProbeAddsRecursive(p) == {p} \cup {q \in Dirs : IsBelow(q, p) /\ Exists(q)}
(* the paths the probe for path registers: w.Add(path), with no walk *)
ProbeAdds(p) == {p}

(* the goroutine handleEvent starts for a Create notification: os.Stat,   *)
(* the directory test, the name test, then w.Add(path), which succeeds     *)
(* (ok) or fails and is logged                                             *)
CreateProbe ==
    \E p \in probes, ok \in BOOLEAN :
       /\ probes' = probes \ {p}
       /\ IF Exists(p) /\ IsDir(p) /\ ~WatcherSkipsName(Name(p))
          THEN /\ watches' = IF ok THEN watches \cup ProbeAdds(p) ELSE watches
               /\ wprobed' =
                     [q \in DOMAIN wprobed \cup {p} |->
                        IF q = p THEN (IF ok THEN "added" ELSE "failed")
                        ELSE wprobed[q]]
          ELSE UNCHANGED <<watches, wprobed>>
       /\ UNCHANGED <<hvars, pvars, envvars, wpc, wret, wevents, werrs, wclosed, pending,
                      toProcess, wcur, tickC, nextTick, wsent, wburst, wopened,
                      wcalls, stalled>>

(* flushPending, up to w.mu.Unlock(): the entries that are due leave       *)
(* w.pending for the batch                                                  *)
DueNow == {p \in DOMAIN pending : FlushDue(pending[p], now)}
flushPendingKeeps ==
    /\ toProcess' = {pending[p] : p \in DueNow}
    /\ pending' = pending
    /\ wpc' = IF DueNow = {} THEN "select" ELSE "batch"
flushPending ==
    /\ toProcess' = {pending[p] : p \in DueNow}
    /\ pending' = [q \in DOMAIN pending \ DueNow |-> pending[q]]
    /\ wpc' = IF DueNow = {} THEN "select" ELSE "batch"

(* case <-flushTicker.C: w.flushPending() *)
WatcherRunFlush ==
    /\ RunSelecting
    /\ tickC
    /\ ~MuHeld
    /\ tickC' = FALSE
    /\ flushPending
    /\ UNCHANGED <<hvars, pvars, envvars, wret, wevents, werrs, wclosed, wcur, nextTick, watches,
                   probes, wprobed, wsent, wburst, wopened, wcalls, stalled>>

(* the steps of Run that lock w.mu: handleEvent, which holds it from its   *)
(* Lock to the deferred Unlock, and flushPending, which holds it while it  *)
(* moves the due entries into the batch                                     *)
LocksMu == WatcherRunEvent \/ WatcherRunFlush

(* flushPending's loop: w.handler(event) is entered for one event of the   *)
(* batch (the batch was filled in map-iteration order, which is arbitrary)  *)
HandlerStart ==
    /\ wpc = "batch"
    /\ \E ev \in toProcess :
          /\ wcur' = ev
          /\ toProcess' = toProcess \ {ev}
          /\ wcalls' = Append(wcalls,
                [path |-> ev.Path, time |-> ev.Time, at |-> now,
                 first |-> wburst[ev.Path].first, last |-> wburst[ev.Path].last,
                 n |-> wburst[ev.Path].n, err |-> "nil"])
          /\ wburst' = [q \in DOMAIN wburst \ {ev.Path} |-> wburst[q]]
    /\ wpc' = "handling"
    /\ UNCHANGED <<hvars, pvars, envvars, wret, wevents, werrs, wclosed, pending, tickC, nextTick,
                   watches, probes, wprobed, wsent, wopened, stalled>>

(* what w.handler(event) can return: nil or an error *)
WatcherHandlerResults == {"nil", "err"}

BatchEndsOnError(r) == r = "err"
(* flushPending's loop after a Handler call that returned r: an error is   *)
(* logged and the loop goes on with the next event                          *)
BatchEnds(r) == FALSE

(* w.handler(event) returns r; the error of the call is put on record *)
HandlerReturn ==
    /\ wpc = "handling"
    /\ \E r \in WatcherHandlerResults :
          /\ wcalls' = [wcalls EXCEPT ![Len(wcalls)].err = r]
          /\ toProcess' = IF BatchEnds(r) THEN {} ELSE toProcess
    /\ wcur' = NoEvent
    /\ wpc' = IF toProcess' = {} THEN "select" ELSE "batch"
    /\ UNCHANGED <<hvars, pvars, envvars, wret, wevents, werrs, wclosed, pending,
                   tickC, nextTick, watches, probes, wprobed, wsent, wburst, wopened,
                   stalled>>

(* the same step where the errors of Handler calls are not on record *)
HandlerReturnUntraced == HandlerReturn /\ wcalls' = wcalls

(* Close(): the notification source is released, its channels are closed   *)
WatcherClose ==
    /\ ~wclosed
    /\ wclosed' = TRUE
    /\ wevents' = << >>
    /\ werrs' = 0
    /\ UNCHANGED <<hvars, pvars, envvars, wpc, wret, pending, toProcess, wcur, tickC, nextTick,
                   watches, probes, wprobed, wsent, wburst, wopened, wcalls, stalled>>

(* the cancellation token is triggered: serve's select receives the       *)
(* signal and calls cancel(), or the parent context is done; serve goes   *)
(* on to wg.Wait()                                                         *)
Cancel ==
    /\ ~cancelled
    /\ cancelled' = TRUE
    /\ spc' = IF spc = "select" THEN "wait" ELSE spc
    /\ UNCHANGED <<rootName, addrec, now, fs, nfsops, wvars, hvars, pvars>>

(* The clock advances.  Its origin is the entry to Run, and Run's loop     *)
(* body takes no time: the clock stands still until Run is entered, while  *)
(* Run has something to receive or is between two Handler calls, and while *)
(* the ticker is due.  A Handler call may take time.                       *)
WatcherBusy ==
    \/ wpc \in {"init", "batch"}
    \/ /\ wpc = "select"
       /\ cancelled \/ wclosed \/ tickC \/ wevents # << >> \/ werrs > 0
    \/ wpc \in {"select", "batch", "handling"} /\ now = nextTick
WatcherTick ==
    /\ now < MaxTime
    /\ wpc # "done"
    /\ ~WatcherBusy
    /\ now' = now + 1
    /\ stalled' = (stalled \/ wpc = "handling")
    /\ UNCHANGED <<rootName, addrec, hvars, pvars, cancelled, fs, nfsops, spc, wpc, wret, wevents, werrs, wclosed,
                   pending, toProcess, wcur, tickC, nextTick, watches, probes, wprobed,
                   wsent, wburst, wopened, wcalls>>

----------------------------------------------------------------------------
(* The file tree changes: these are the writers the daemon watches.       *)
MutFiles == {<<"a", "b", "y">>, <<"f">>}

(* an existing file is written: its modification time becomes now *)
FsWrite ==
    /\ nfsops < MaxFsOps
    /\ \E f \in MutFiles :
          /\ Exists(f)
          /\ fs' = [fs EXCEPT ![f].mtime = now]
    /\ nfsops' = nfsops + 1
    /\ pquiet' = FALSE
    /\ UNCHANGED <<rootName, addrec, now, cancelled, spc, wvars, hvars, ppc, pret, ptickC, lastScan, dirModTime,
                   skipDirs, setter, lastScanL, dirModTimeL, visitedDirs, todo, nscan, phandled,
                   pskipRet, perrRet, pwalkErr, pafter>>

(* a file is created: the directory it is created in is modified too *)
FsCreate ==
    /\ nfsops < MaxFsOps
    /\ \E f \in MutFiles :
          /\ ~Exists(f)
          /\ Exists(Parent(f))
          /\ fs' = [fs EXCEPT ![f] = [exists |-> TRUE, mtime |-> now,
                                      ino |-> fs[f].ino + 1],
                              ![Parent(f)].mtime = now]
    /\ nfsops' = nfsops + 1
    /\ pquiet' = FALSE
    /\ UNCHANGED <<rootName, addrec, now, cancelled, spc, wvars, hvars, ppc, pret, ptickC, lastScan, dirModTime,
                   skipDirs, setter, lastScanL, dirModTimeL, visitedDirs, todo, nscan, phandled,
                   pskipRet, perrRet, pwalkErr, pafter>>

(* a file is removed: the directory it was in is modified *)
FsRemove ==
    /\ nfsops < MaxFsOps
    /\ \E f \in MutFiles :
          /\ Exists(f)
          /\ fs' = [fs EXCEPT ![f].exists = FALSE, ![Parent(f)].mtime = now]
    /\ nfsops' = nfsops + 1
    /\ pquiet' = FALSE
    /\ UNCHANGED <<rootName, addrec, now, cancelled, spc, wvars, hvars, ppc, pret, ptickC, lastScan, dirModTime,
                   skipDirs, setter, lastScanL, dirModTimeL, visitedDirs, todo, nscan, phandled,
                   pskipRet, perrRet, pwalkErr, pafter>>

(* a directory is removed with everything in it (or renamed away): the    *)
(* directory it was in is modified                                         *)
MutDirs == {<<"a", "b">>}
FsRemoveDir ==
    /\ nfsops < MaxFsOps
    /\ \E d \in MutDirs :
          /\ Exists(d)
          /\ fs' = [q \in Paths |->
                     IF q = d \/ IsBelow(q, d) THEN [fs[q] EXCEPT !.exists = FALSE]
                     ELSE IF q = Parent(d) THEN [fs[q] EXCEPT !.mtime = now]
                     ELSE fs[q]]
    /\ nfsops' = nfsops + 1
    /\ pquiet' = FALSE
    /\ UNCHANGED <<rootName, addrec, now, cancelled, spc, wvars, hvars, ppc, pret, ptickC, lastScan,
                   dirModTime, skipDirs, setter, lastScanL, dirModTimeL, visitedDirs,
                   todo, nscan, phandled, pskipRet, perrRet, pwalkErr, pafter>>

----------------------------------------------------------------------------
(* Poller *)

(* NewPoller: the default skip directories *)
DefaultSkipDirs == {".git", ".dropbox.cache", "node_modules", ".svn", ".hg"}
(* NewPoller: for _, dir := range cfg.SkipDirs { skipDirs[dir] = true } *)
ConfiguredSkipDirs == {"b"}

(* what a Handler call can return: nil, ErrSkipDir, any other error *)
HandlerResults == {"nil", "skip", "err"}

IsErrSkipDirNever(r) == FALSE
IsErrSkipDirAny(r) == r # "nil"
(* errors.Is(err, ErrSkipDir) *)
IsErrSkipDir(r) == r = "skip"

PollerSkipsSetOnly(name) == name \in skipDirs
(* p.skipDirs[name] || strings.HasPrefix(name, ".") && name != "." *)
PollerSkipsName(name) ==
    name \in skipDirs \/ (HasDotPrefix(name) /\ name # ".")

shouldSkipDirUnknown(path, modTime) ==
    path \notin DOMAIN dirModTime \/ dirModTime[path] = modTime
(* no call of SetSkipDir is in progress; n counts the calls made *)
NoSetter == [pc |-> "idle", name |-> "-", skip |-> FALSE, n |-> 0]

(* shouldSkipDir: exists && modTime.Equal(prevModTime) *)
shouldSkipDir(path, modTime) ==
    path \in DOMAIN dirModTime /\ dirModTime[path] = modTime

updateDirModTimeNot(path, modTime) == dirModTime
(* updateDirModTime *)
updateDirModTime(path, modTime) ==
    [q \in DOMAIN dirModTime \cup {path} |->
        IF q = path THEN modTime ELSE dirModTime[q]]

cleanupNothing(visited) == dirModTime
(* cleanupDirModTime: the entries of directories not visited are deleted *)
cleanupDirModTime(visited) ==
    [q \in DOMAIN dirModTime \cap visited |-> dirModTime[q]]

FileUnmodifiedNever(info, last) == FALSE
FileUnmodifiedSinceStart(info, last) == info.mtime < lastScan
FileUnmodifiedOrAtStart(info, last) == last # 0 /\ info.mtime <= last
(* !lastScan.IsZero() && info.ModTime().Before(lastScan) *)
FileUnmodified(info, last) == last # 0 /\ info.mtime < last

(* os.ReadDir: the entries of directory p, sorted by name *)
ReadDir(p) ==
    SelectSeq(Universe, LAMBDA q : q # Root /\ Parent(q) = p /\ Exists(q))

VisitDirUnhandled(p, r) ==
    /\ visitedDirs' = visitedDirs \cup {p}
    /\ todo' = ReadDir(p) \o Tail(todo)
    /\ UNCHANGED <<dirModTime, phandled, pskipRet, perrRet, pafter>>
(* The walk function of Scan for a directory entry p; r is what the        *)
(* Handler returns if it is called.  filepath.WalkDir descends (reads the  *)
(* directory) unless the function returns filepath.SkipDir.                *)
VisitDir(p, r) ==
    /\ visitedDirs' = visitedDirs \cup {p}
    /\ IF ~Exists(p)
       THEN \* d.Info() fails, then os.ReadDir fails: both are logged
            /\ todo' = Tail(todo)
            /\ UNCHANGED <<dirModTime, phandled, pskipRet, perrRet, pafter>>
       ELSE /\ phandled' = Append(phandled, p)
            /\ pafter' = (pafter \/ cancelled)
            /\ pskipRet' = IF r = "skip" THEN pskipRet \cup {p} ELSE pskipRet
            /\ perrRet' = IF r = "err" THEN perrRet \cup {p} ELSE perrRet
            /\ IF IsErrSkipDir(r)
               THEN /\ todo' = Tail(todo)
                    /\ UNCHANGED dirModTime
               ELSE /\ IF PollerSkipsName(Name(p))
                       THEN todo' = Tail(todo) /\ UNCHANGED dirModTime
                       ELSE IF lastScanL # 0 /\ shouldSkipDir(p, Stat(p).mtime)
                       THEN todo' = Tail(todo) /\ UNCHANGED dirModTime
                       ELSE /\ dirModTime' =
                                 IF lastScanL # 0
                                 THEN updateDirModTime(p, Stat(p).mtime)
                                 ELSE dirModTime
                            /\ todo' = ReadDir(p) \o Tail(todo)

(* The walk function of Scan for an entry p that is not a directory. *)
VisitFile(p, r) ==
    /\ todo' = Tail(todo)
    /\ IF ~Exists(p) \/ FileUnmodified(Stat(p), lastScanL)
       THEN UNCHANGED <<phandled, pafter>>
       ELSE /\ phandled' = Append(phandled, p)
            /\ pafter' = (pafter \/ cancelled)
    /\ UNCHANGED <<visitedDirs, dirModTime, pskipRet, perrRet>>

(* Scan, up to the call of filepath.WalkDir *)
ScanBegin ==
    /\ nscan < MaxScans
    /\ lastScanL' = lastScan
    /\ dirModTimeL' = dirModTime
    /\ lastScan' = now
    /\ visitedDirs' = {}
    /\ todo' = << Root >>
    /\ nscan' = nscan + 1
    /\ phandled' = << >>
    /\ pskipRet' = {} /\ perrRet' = {}
    /\ pwalkErr' = "nil"
    /\ pquiet' = TRUE
    /\ pafter' = FALSE
    /\ ppc' = "walk"

PollerRunStartWaiting ==
    /\ ppc = "init"
    /\ ppc' = "select"
    /\ UNCHANGED <<envvars, wvars, hvars, pret, ptickC, lastScan, dirModTime,
                   skipDirs, setter, lastScanL, dirModTimeL, visitedDirs, todo, nscan, phandled,
                   pskipRet, perrRet, pwalkErr, pquiet, pafter>>
(* Run is entered: the initial Scan starts *)
PollerRunStart ==
    /\ ppc = "init"
    /\ ScanBegin
    /\ UNCHANGED <<envvars, wvars, hvars, pret, ptickC, dirModTime, skipDirs, setter>>

WalkFuncErrFromHandler(r) == IF r = "err" THEN "handler error" ELSE "nil"
(* the error, other than filepath.SkipDir, the walk function returns to   *)
(* filepath.WalkDir when the Handler has returned r or the entry has       *)
(* vanished: none, every return is nil or filepath.SkipDir                 *)
WalkFuncErr(r) == "nil"

(* filepath.WalkDir calls the walk function for the next entry; the first *)
(* error the function returns is the one WalkDir returns                   *)
WalkStep ==
    /\ ppc = "walk"
    /\ todo # << >>
    /\ \E r \in HandlerResults :
          /\ IF IsDir(Head(todo)) THEN VisitDir(Head(todo), r)
             ELSE VisitFile(Head(todo), r)
          /\ pwalkErr' = IF pwalkErr # "nil" THEN pwalkErr ELSE WalkFuncErr(r)
    /\ UNCHANGED <<envvars, wvars, hvars, ppc, pret, ptickC, lastScan, skipDirs, setter,
                   lastScanL, dirModTimeL, nscan, pquiet>>

(* filepath.WalkDir has returned: cleanupDirModTime, and Scan returns to   *)
(* Run, which logs a Scan error and goes (back) to its select               *)
ScanEnd ==
    /\ ppc = "walk"
    /\ todo = << >>
    /\ dirModTime' = cleanupDirModTime(visitedDirs)
    /\ ppc' = "select"
    /\ UNCHANGED <<envvars, wvars, hvars, pret, ptickC, lastScan, skipDirs, setter, lastScanL, dirModTimeL,
                   visitedDirs, todo, nscan, phandled, pskipRet, perrRet, pwalkErr, pquiet, pafter>>

(* Run's ticker (created when the initial Scan has returned) fires *)
PollerTickerFire ==
    /\ ppc = "select"
    /\ ~ptickC
    /\ ptickC' = TRUE
    /\ UNCHANGED <<envvars, wvars, hvars, ppc, pret, lastScan, dirModTime, skipDirs, setter,
                   lastScanL, dirModTimeL, visitedDirs, todo, nscan, phandled, pskipRet, perrRet, pwalkErr,
                   pquiet, pafter>>

(* case <-ticker.C: p.Scan() *)
PollerRunTick ==
    /\ ppc = "select"
    /\ ptickC
    /\ ptickC' = FALSE
    /\ ScanBegin
    /\ UNCHANGED <<envvars, wvars, hvars, pret, dirModTime, skipDirs, setter>>

PollerReturnsAnywhere == ppc \in {"select", "walk"}
(* Run is at its select: Scan, which takes no context, has returned *)
PollerSelecting == ppc = "select"

(* case <-ctx.Done(): return ctx.Err() *)
PollerRunCtxDone ==
    /\ PollerSelecting
    /\ cancelled
    /\ ppc' = "done"
    /\ pret' = "Canceled"
    /\ UNCHANGED <<envvars, wvars, hvars, ptickC, lastScan, dirModTime, skipDirs, setter,
                   lastScanL, dirModTimeL, visitedDirs, todo, nscan, phandled, pskipRet, perrRet, pwalkErr,
                   pquiet, pafter>>

(* p.mu is held from one step to the next only by a caller of SetSkipDir, *)
(* between its Lock and its deferred Unlock; Scan locks and unlocks within *)
(* ScanBegin, shouldSkipDir, updateDirModTime and cleanupDirModTime         *)
PMuFree == setter.pc = "idle"

(* the names SetSkipDir is called with in the model *)
SetNames == {"a", "node_modules"}

(* SetSkipDir(name, skip): p.mu.Lock() *)
SetSkipDirLock ==
    /\ setter.pc = "idle"
    /\ setter.n < MaxSetCalls
    /\ ppc \in {"select", "walk"}
    /\ \E name \in SetNames, skip \in BOOLEAN :
          setter' = [pc |-> "locked", name |-> name, skip |-> skip,
                     n |-> setter.n + 1]
    /\ UNCHANGED <<envvars, wvars, hvars, ppc, pret, ptickC, lastScan, dirModTime,
                   skipDirs, lastScanL, dirModTimeL, visitedDirs, todo, nscan,
                   phandled, pskipRet, perrRet, pwalkErr, pquiet, pafter>>

(* p.skipDirs[name] = true, or delete(p.skipDirs, name) *)
SetSkipDirWrite ==
    /\ setter.pc = "locked"
    /\ skipDirs' = IF setter.skip THEN skipDirs \cup {setter.name}
                   ELSE skipDirs \ {setter.name}
    /\ setter' = [setter EXCEPT !.pc = "written"]
    /\ UNCHANGED <<envvars, wvars, hvars, ppc, pret, ptickC, lastScan, dirModTime,
                   lastScanL, dirModTimeL, visitedDirs, todo, nscan,
                   phandled, pskipRet, perrRet, pwalkErr, pquiet, pafter>>

(* the deferred p.mu.Unlock(): SetSkipDir returns *)
SetSkipDirUnlock ==
    /\ setter.pc = "written"
    /\ setter' = [setter EXCEPT !.pc = "idle"]
    /\ UNCHANGED <<envvars, wvars, hvars, ppc, pret, ptickC, lastScan, dirModTime,
                   skipDirs, lastScanL, dirModTimeL, visitedDirs, todo, nscan,
                   phandled, pskipRet, perrRet, pwalkErr, pquiet, pafter>>

(* the walk function is about to be called for a directory that is there: *)
(* unless the Handler answers ErrSkipDir, it evaluates p.skipDirs[name],   *)
(* with no lock taken                                                       *)
WalkAtDir ==
    /\ ppc = "walk" /\ todo # << >>
    /\ IsDir(Head(todo)) /\ Exists(Head(todo))

(* the walk step goes on to shouldSkipDir, which takes p.mu.RLock() *)
WalkTakesMu == WalkAtDir /\ lastScanL # 0

(* the Go runtime finds the map read while it is being written and ends    *)
(* the process (fatal error: concurrent map read and map write)             *)
ConcurrentMapFault ==
    /\ WalkAtDir
    /\ setter.pc # "idle"
    /\ ppc' = "crashed"
    /\ UNCHANGED <<envvars, wvars, hvars, pret, ptickC, lastScan, dirModTime,
                   skipDirs, setter, lastScanL, dirModTimeL, visitedDirs, todo, nscan,
                   phandled, pskipRet, perrRet, pwalkErr, pquiet, pafter>>

(* time passes (the clock of SpecP and SpecH) *)
Tick ==
    /\ now < MaxClock
    /\ now' = now + 1
    /\ UNCHANGED <<rootName, addrec, cancelled, fs, nfsops, spc, wvars, hvars, pvars>>

----------------------------------------------------------------------------
(* Watcher.AddRecursive, as serve calls it before it starts the two loops. *)
(* filepath.Walk lstats every entry and calls the walk function for it.    *)
InitA == [pc |-> "init", todo |-> << >>, err |-> "nil", ret |-> "none",
          failed |-> {}]

AddRecursiveSkipsDotted(name) == HasDotPrefix(name) /\ name # "."
(* name == "node_modules" || ... || strings.HasPrefix(name, ".") && name != "." *)
AddRecursiveSkipsName(name) ==
    \/ name \in {"node_modules", ".git", ".dropbox.cache", ".svn", ".hg"}
    \/ HasDotPrefix(name) /\ name # "."

OnAddFailureReturnErr(path) == "add error"
(* what the walk function returns when w.Add(path) has failed: the failure *)
(* is logged, "Continue walking instead of returning error"                *)
OnAddFailure(path) == "nil"

(* w.AddRecursive(cfg.root) is called *)
AddRecursiveStart ==
    /\ addrec.pc = "init"
    /\ addrec' = [addrec EXCEPT !.pc = "walk", !.todo = << Root >>]
    /\ UNCHANGED <<now, cancelled, fs, nfsops, spc, rootName, wvars, pvars,
                   hvars>>

(* filepath.Walk calls the walk function for the next entry p; ok tells   *)
(* whether w.Add(p) succeeds if it is called.  The function returns nil    *)
(* for an entry that cannot be accessed and for one that is no directory,  *)
(* filepath.SkipDir for a directory with a skip name; any other error      *)
(* would end the walk and be returned by AddRecursive.                     *)
AddRecursiveStep ==
    /\ addrec.pc = "walk"
    /\ addrec.todo # << >>
    /\ \E ok \in BOOLEAN :
          LET p == Head(addrec.todo)
              rest == Tail(addrec.todo)
              watched == Exists(p) /\ IsDir(p)
                           /\ ~AddRecursiveSkipsName(Name(p))
              fnret == IF watched /\ ~ok THEN OnAddFailure(p) ELSE "nil"
          IN  /\ watches' = IF watched /\ ok THEN watches \cup {p}
                            ELSE watches
              /\ addrec' =
                    [addrec EXCEPT
                       !.failed = IF watched /\ ~ok THEN @ \cup {p} ELSE @,
                       !.err = fnret,
                       !.todo = IF fnret # "nil" THEN << >>
                                ELSE IF watched THEN ReadDir(p) \o rest
                                ELSE rest]
    /\ UNCHANGED <<now, cancelled, fs, nfsops, spc, rootName, pvars, hvars,
                   wpc, wret, wevents, werrs, wclosed, pending, toProcess,
                   wcur, tickC, nextTick, probes, wprobed, wsent, wburst, wopened,
                   wcalls, stalled>>

(* filepath.Walk has returned: AddRecursive returns what it returned *)
AddRecursiveReturn ==
    /\ addrec.pc = "walk"
    /\ addrec.todo = << >>
    /\ addrec' = [addrec EXCEPT !.pc = "done", !.ret = addrec.err]
    /\ UNCHANGED <<now, cancelled, fs, nfsops, spc, rootName, wvars, pvars,
                   hvars>>

----------------------------------------------------------------------------
(* The Decision Handler: the closure createHandler returns.  serve hands  *)
(* the same closure to the Poller and (behind an os.Stat) to the Watcher, *)
(* so one invocation per component can be running at a time.              *)
Comp == {"scanner", "watcher"}
HPaths == {<<"node_modules">>, <<"a", "x.log">>, <<"f">>}
NoInfo == [exists |-> FALSE, mtime |-> 0, ino |-> 0]

(* state.NewCache(1 * time.Minute), on SpecH's clock whose unit is 30s *)
TTL == 2

(* Matcher.ShouldIgnore for a tree whose root holds a .dropboxignore with *)
(* the patterns node_modules and *.log                                     *)
MatcherMatches(p) == Name(p) \in {"node_modules", "x.log"}

IsIgnoredNever(p) == FALSE
(* xattr.IsIgnored: the attribute is present *)
IsIgnored(p) == p \in xattr

CacheAddNot(c, p, info, t) == c
(* Cache.Add *)
CacheAdd(c, p, info, t) ==
    [q \in DOMAIN c \cup {p} |->
        IF q = p THEN [Inode |-> info.ino, Mtime |-> info.mtime, Added |-> t]
        ELSE c[q]]

(* Cache.Has: the entry of an expired path is deleted *)
CacheExpired(c, p, t) == p \in DOMAIN c /\ t - c[p].Added > TTL
CacheHitAnyMtime(c, p, info, t) ==
    /\ p \in DOMAIN c
    /\ ~CacheExpired(c, p, t)
    /\ c[p].Inode = info.ino
CacheHit(c, p, info, t) ==
    /\ p \in DOMAIN c
    /\ ~CacheExpired(c, p, t)
    /\ c[p].Inode = info.ino /\ c[p].Mtime = info.mtime
CacheAfterHas(c, p, t) ==
    IF CacheExpired(c, p, t) THEN [q \in DOMAIN c \ {p} |-> c[q]] ELSE c

StoreCalls == {"IsIgnored", "SetIgnored"}
MuHoldersInStoreCall == {c \in Comp : hpc[c] \in StoreCalls}
(* the components that hold cache.mu or m.mu between two steps of the      *)
(* closure: none, since Cache.Has, Cache.Add and Matcher.getOrLoadIgnore   *)
(* unlock before they return and the closure itself takes no lock          *)
MuHolders == {}
(* c can take cache.mu or m.mu *)
MuFree(c) == MuHolders \ {c} = {}

(* the closure returns r to component c *)
Return(c, r) ==
    /\ hpc' = [hpc EXCEPT ![c] = "idle"]
    /\ hdone' = [hdone EXCEPT ![c][hpath[c]] = @ + 1]
    /\ hrets' = hrets \cup {r}

SkipIfDir(p) == IF IsDir(p) THEN "skip" ELSE "nil"

(* component c invokes the closure for path p with the FileInfo it holds *)
HandlerCall ==
    /\ ncalls < MaxCalls
    /\ \E c \in Comp, p \in HPaths :
          /\ hpc[c] = "idle"
          /\ Exists(p)
          /\ hpc' = [hpc EXCEPT ![c] = "Has"]
          /\ hpath' = [hpath EXCEPT ![c] = p]
          /\ hinfo' = [hinfo EXCEPT ![c] = Stat(p)]
    /\ ncalls' = ncalls + 1
    /\ UNCHANGED <<envvars, wvars, pvars, clook, cadds, ignf, mcache, mlook, xattr, cache, dryRun, nfail, hsets,
                   hdone, hrets>>

(* if cache.Has(path, info) { return nil } *)
HandlerHas ==
    \E c \in Comp :
       /\ hpc[c] = "Has"
       /\ MuFree(c)
       /\ cache' = CacheAfterHas(cache, hpath[c], now)
       /\ IF CacheHit(cache, hpath[c], hinfo[c], now)
          THEN Return(c, "nil")
          ELSE /\ hpc' = [hpc EXCEPT ![c] = "ShouldIgnore"]
               /\ UNCHANGED <<hdone, hrets>>
       /\ UNCHANGED <<envvars, wvars, pvars, clook, cadds, ignf, mcache, mlook, hpath, hinfo, xattr, dryRun, ncalls,
                      nfail, hsets>>

(* m.ShouldIgnore(path): an error is logged and nil returned; a path that *)
(* matches no pattern returns nil                                          *)
HandlerShouldIgnore ==
    \E c \in Comp, ok \in BOOLEAN :
       /\ hpc[c] = "ShouldIgnore"
       /\ MuFree(c)
       /\ IF ok /\ MatcherMatches(hpath[c])
          THEN /\ hpc' = [hpc EXCEPT ![c] = "IsIgnored"]
               /\ UNCHANGED <<hdone, hrets>>
          ELSE Return(c, "nil")
       /\ nfail' = IF ok THEN nfail ELSE nfail + 1
       /\ UNCHANGED <<envvars, wvars, pvars, clook, cadds, ignf, mcache, mlook, hpath, hinfo, xattr, cache, dryRun,
                      ncalls, hsets>>

(* xattr.IsIgnored(path): an error is logged and nil returned *)
HandlerIsIgnored ==
    \E c \in Comp, ok \in BOOLEAN :
       /\ hpc[c] = "IsIgnored"
       /\ IF ~ok THEN Return(c, "nil")
          ELSE /\ hpc' = [hpc EXCEPT ![c] =
                    IF IsIgnored(hpath[c]) THEN "AddIgnored" ELSE "SetIgnored"]
               /\ UNCHANGED <<hdone, hrets>>
       /\ nfail' = IF ok THEN nfail ELSE nfail + 1
       /\ UNCHANGED <<envvars, wvars, pvars, clook, cadds, ignf, mcache, mlook, hpath, hinfo, xattr, cache, dryRun,
                      ncalls, hsets>>

(* if ignored { cache.Add(path, info); return ErrSkipDir or nil } *)
HandlerAddIgnored ==
    \E c \in Comp :
       /\ hpc[c] = "AddIgnored"
       /\ MuFree(c)
       /\ cache' = CacheAdd(cache, hpath[c], hinfo[c], now)
       /\ Return(c, SkipIfDir(hpath[c]))
       /\ UNCHANGED <<envvars, wvars, pvars, clook, cadds, ignf, mcache, mlook, hpath, hinfo, xattr, dryRun, ncalls,
                      nfail, hsets>>

IsDryRunNever == FALSE
(* the dryRun that createHandler's closure captured *)
IsDryRun == dryRun

(* if dryRun { log } else { xattr.SetIgnored(path) }: an error is logged   *)
(* and nil returned                                                         *)
HandlerSetIgnored ==
    \E c \in Comp, ok \in BOOLEAN :
       /\ hpc[c] = "SetIgnored"
       /\ IF IsDryRun
          THEN /\ ok
               /\ hpc' = [hpc EXCEPT ![c] = "Add"]
               /\ UNCHANGED <<xattr, hsets, nfail, hdone, hrets>>
          ELSE IF ok
          THEN /\ xattr' = xattr \cup {hpath[c]}
               /\ hsets' = [hsets EXCEPT ![c][hpath[c]] = @ + 1]
               /\ hpc' = [hpc EXCEPT ![c] = "Add"]
               /\ UNCHANGED <<nfail, hdone, hrets>>
          ELSE /\ nfail' = nfail + 1
               /\ Return(c, "nil")
               /\ UNCHANGED <<xattr, hsets>>
       /\ UNCHANGED <<envvars, wvars, pvars, clook, cadds, ignf, mcache, mlook, hpath, hinfo, cache, dryRun, ncalls>>

(* cache.Add(path, info); return ErrSkipDir for a directory, else nil *)
HandlerAdd ==
    \E c \in Comp :
       /\ hpc[c] = "Add"
       /\ MuFree(c)
       /\ cache' = CacheAdd(cache, hpath[c], hinfo[c], now)
       /\ Return(c, SkipIfDir(hpath[c]))
       /\ UNCHANGED <<envvars, wvars, pvars, clook, cadds, ignf, mcache, mlook, hpath, hinfo, xattr, dryRun, ncalls,
                      nfail, hsets>>

----------------------------------------------------------------------------
(* The Cache on its own, driven as state_test.go drives it: a client that  *)
(* calls Add, Has and Remove in any order, for paths and FileInfos of its  *)
(* choice (the same file before and after a write, and a file that took    *)
(* the path over under another inode).                                      *)
CPaths == {<<"a", "x.log">>, <<"f">>}
CInfos ==
    { [exists |-> TRUE, mtime |-> 1, ino |-> 1],
      [exists |-> TRUE, mtime |-> 2, ino |-> 1],
      [exists |-> TRUE, mtime |-> 1, ino |-> 2] }
NoLook == [path |-> Root, info |-> NoInfo, at |-> 0, ret |-> FALSE]

(* Cache.Remove *)
CacheRemove(c, p) == [q \in DOMAIN c \ {p} |-> c[q]]

ClientFrame ==
    UNCHANGED <<envvars, wvars, pvars, hpc, hpath, hinfo, xattr, dryRun, ncalls,
                nfail, hsets, hdone, hrets, ignf, mcache, mlook>>

(* cache.Add(p, info) *)
ClientAdd(p, info) ==
    /\ cache' = CacheAdd(cache, p, info, now)
    /\ cadds' = [q \in DOMAIN cadds \cup {p} |->
                    IF q = p THEN [info |-> info, at |-> now] ELSE cadds[q]]
    /\ UNCHANGED clook
    /\ ClientFrame

(* cache.Has(p, info) *)
ClientHas(p, info) ==
    /\ cache' = CacheAfterHas(cache, p, now)
    /\ clook' = [path |-> p, info |-> info, at |-> now,
                 ret |-> CacheHit(cache, p, info, now)]
    /\ UNCHANGED cadds
    /\ ClientFrame

(* cache.Remove(p) *)
ClientRemove(p) ==
    /\ cache' = CacheRemove(cache, p)
    /\ cadds' = [q \in DOMAIN cadds \ {p} |-> cadds[q]]
    /\ UNCHANGED clook
    /\ ClientFrame

ClientAdds == \E p \in CPaths, info \in CInfos : ClientAdd(p, info)
ClientLooksUp == \E p \in CPaths, info \in CInfos : ClientHas(p, info)
ClientRemoves == \E p \in CPaths : ClientRemove(p)

----------------------------------------------------------------------------
(* The Matcher: ShouldIgnore with its cache of compiled patterns, under a  *)
(* client that also rewrites the ignore files (matcher_test.go).           *)

(* NewMatcher(2), as TestMatcherCache makes it *)
MatcherCacheSize == 2

(* the directories that can hold a .dropboxignore, and the paths asked for *)
IgnDirs == {Root, <<"a">>, <<"a", "b">>}
MPaths == {<<"a", "x.log">>, <<"a", "b">>, <<"a", "b", "y">>, <<"f">>}
Absent == << "absent" >>
NoFile == << "-" >>
(* what an ignore file can hold: lines, with a comment, an empty line and  *)
(* a line in blanks                                                         *)
IgnContents == { << "*.log" >>, << "# *.log", "", "b/", " y " >> }

(* strings.TrimSpace, on the lines of the model *)
TrimSpace(l) == IF l = " y " THEN "y" ELSE l
(* strings.HasPrefix(line, "#") *)
IsCommentLine(l) == l = "# *.log"
(* LoadIgnoreFile: the trimmed lines that are neither empty nor comments,  *)
(* compiled                                                                 *)
LoadIgnoreFile(lines) ==
    { TrimSpace(lines[i]) :
         i \in { j \in 1..Len(lines) :
                    TrimSpace(lines[j]) # "" /\ ~IsCommentLine(TrimSpace(lines[j])) } }

(* findIgnoreFile: the closest directory, from dir upwards, whose          *)
(* .dropboxignore is there                                                  *)
RECURSIVE findIgnoreFile(_)
findIgnoreFile(dir) ==
    IF ignf.content[dir] # Absent THEN dir
    ELSE IF dir = Root THEN NoFile
    ELSE findIgnoreFile(Parent(dir))

(* filepath.Rel(filepath.Dir(ignoreFile), path) *)
Rel(dir, p) == SubSeq(p, Len(dir) + 1, Len(p))

(* one compiled pattern against a relative path; slash tells whether the   *)
(* path was given with a trailing slash                                     *)
PatMatches(pat, rel, slash) ==
    \E i \in 1..Len(rel) :
       \/ pat = "*.log" /\ rel[i] = "x.log"
       \/ pat = "y" /\ rel[i] = "y"
       \/ pat = "b/" /\ rel[i] = "b" /\ (i < Len(rel) \/ slash)
(* ignore.MatchesPath *)
MatchesPath(pats, rel, slash) == \E pat \in pats : PatMatches(pat, rel, slash)

(* the answer of ShouldIgnore from the patterns pats of the ignore file in *)
(* dir: MatchesPath(relPath), and for a directory MatchesPath(relPath+"/") *)
Answer(pats, dir, p) ==
    \/ MatchesPath(pats, Rel(dir, p), FALSE)
    \/ Exists(p) /\ IsDir(p) /\ MatchesPath(pats, Rel(dir, p), TRUE)

(* lru.Cache: Remove, Add (the least recently used entry is evicted when   *)
(* the size is exceeded), Get (a hit makes the entry the most recent)      *)
LruRemove(c, k) == SelectSeq(c, LAMBDA e : e.key # k)
LruAdd(c, k, v) ==
    LET c2 == Append(LruRemove(c, k), [key |-> k, pats |-> v])
    IN  IF Len(c2) > MatcherCacheSize THEN Tail(c2) ELSE c2
LruValue(c, k) == (CHOOSE i \in 1..Len(c) : c[i].key = k)
LruGetNever(c, k) == FALSE
(* m.cache.Get(path): ok *)
LruGet(c, k) == \E i \in 1..Len(c) : c[i].key = k

NoMLook == [path |-> Root, file |-> NoFile, hit |-> FALSE, ret |-> FALSE]
InitIgn ==
    [content |-> [d \in IgnDirs |->
                    IF d = Root THEN << "*.log" >>
                    ELSE IF d = <<"a", "b">> THEN << "# *.log", "", "b/", " y " >>
                    ELSE Absent],
     writes |-> 0]

MatcherFrame ==
    UNCHANGED <<envvars, wvars, pvars, hpc, hpath, hinfo, xattr, cache, dryRun,
                ncalls, nfail, hsets, hdone, hrets, clook, cadds>>

(* m.ShouldIgnore(p): findIgnoreFile, getOrLoadIgnore (the cached patterns *)
(* on a hit, else LoadIgnoreFile and m.cache.Add), then the match          *)
ShouldIgnore(p) ==
    LET file == findIgnoreFile(Parent(p))
    IN  /\ IF file = NoFile
           THEN /\ mlook' = [path |-> p, file |-> NoFile, hit |-> FALSE,
                             ret |-> FALSE]
                /\ mcache' = mcache
           ELSE IF LruGet(mcache, file)
           THEN LET pats == mcache[LruValue(mcache, file)].pats
                IN  /\ mcache' = LruAdd(mcache, file, pats)
                    /\ mlook' = [path |-> p, file |-> file, hit |-> TRUE,
                                 ret |-> Answer(pats, file, p)]
           ELSE LET pats == LoadIgnoreFile(ignf.content[file])
                IN  /\ mcache' = LruAdd(mcache, file, pats)
                    /\ mlook' = [path |-> p, file |-> file, hit |-> FALSE,
                                 ret |-> Answer(pats, file, p)]
        /\ UNCHANGED ignf
        /\ MatcherFrame

(* m.ClearCache(): m.cache.Purge() *)
ClearCache ==
    /\ mcache' = << >>
    /\ UNCHANGED <<ignf, mlook>>
    /\ MatcherFrame

(* m.InvalidatePath(file): m.cache.Remove(file) *)
InvalidatePath(file) ==
    /\ mcache' = LruRemove(mcache, file)
    /\ UNCHANGED <<ignf, mlook>>
    /\ MatcherFrame

(* the .dropboxignore of directory d is written, or removed *)
WriteIgnoreFile(d, lines) ==
    /\ ignf.writes < MaxIgnoreWrites
    /\ ignf.content[d] # lines
    /\ ignf' = [content |-> [ignf.content EXCEPT ![d] = lines],
                writes |-> ignf.writes + 1]
    /\ UNCHANGED <<mcache, mlook>>
    /\ MatcherFrame

MatcherAsked == \E p \in MPaths : ShouldIgnore(p)
MatcherInvalidated == \E d \in IgnDirs : InvalidatePath(d)
IgnoreFileWritten ==
    \E d \in IgnDirs, lines \in IgnContents \cup {Absent} : WriteIgnoreFile(d, lines)

----------------------------------------------------------------------------
(* the tree when the daemon starts: everything but f is there *)
InitFs ==
    [p \in Paths |-> [exists |-> p # <<"f">>, mtime |-> 1, ino |-> 1]]

InitW ==
    /\ wpc = "init" /\ wret = "none"
    /\ wevents = << >> /\ werrs = 0 /\ wclosed = FALSE
    /\ pending = << >> /\ toProcess = {} /\ wcur = NoEvent
    /\ tickC = FALSE /\ nextTick = 0
    /\ watches = {} /\ probes = {} /\ wprobed = << >>
    /\ wsent = 0 /\ wburst = << >> /\ wopened = [p \in WPaths |-> 0]
    /\ wcalls = << >> /\ stalled = FALSE

InitH ==
    /\ hpc = [c \in Comp |-> "idle"]
    /\ hpath = [c \in Comp |-> Root]
    /\ hinfo = [c \in Comp |-> NoInfo]
    /\ xattr = {} /\ cache = << >> /\ dryRun = FALSE
    /\ ncalls = 0 /\ nfail = 0
    /\ hsets = [c \in Comp |-> [p \in HPaths |-> 0]]
    /\ hdone = [c \in Comp |-> [p \in HPaths |-> 0]]
    /\ hrets = {}
    /\ clook = NoLook /\ cadds = << >>
    /\ ignf = InitIgn /\ mcache = << >> /\ mlook = NoMLook

InitP ==
    /\ ppc = "init" /\ pret = "none" /\ ptickC = FALSE
    /\ lastScan = 0 /\ dirModTime = << >>
    /\ lastScanL = 0 /\ visitedDirs = {} /\ todo = << >>
    /\ dirModTimeL = << >>
    /\ nscan = 0 /\ phandled = << >> /\ pskipRet = {} /\ perrRet = {} /\ pquiet = TRUE
    /\ pwalkErr = "nil"
    /\ pafter = FALSE
    /\ setter = NoSetter

WInit ==
    /\ now = 0 /\ cancelled = FALSE /\ fs = InitFs /\ nfsops = 0
    /\ rootName = "r" /\ addrec = InitA
    /\ spc = "select"
    /\ InitW /\ InitP /\ InitH /\ skipDirs = DefaultSkipDirs

(* the probe when w.Add does not fail *)
CreateProbeAdded == CreateProbe /\ \A p \in DOMAIN wprobed' : wprobed'[p] = "added"

WNext ==
    \/ Notify \/ WatcherRunStart \/ TickerFire \/ WatcherRunEvent
    \/ CreateProbeAdded \/ WatcherRunFlush \/ HandlerStart \/ HandlerReturnUntraced
    \/ WatcherTick

SpecW == WInit /\ [][WNext]_vars

(* SpecF: the Watcher as in SpecW, with the error of every Handler call on *)
(* record.                                                                  *)
FNext ==
    \/ Notify \/ WatcherRunStart \/ TickerFire \/ WatcherRunEvent
    \/ WatcherRunFlush \/ HandlerStart \/ HandlerReturn \/ WatcherTick

SpecF == WInit /\ [][FNext]_vars

(* SpecR: Run with every case of its select: notifications, errors of the *)
(* notification source, flush ticks, cancellation, and Close() called      *)
(* while Run is running.                                                    *)
RunNotify == wsent < MaxRunNotify /\ Notify
RunTick == now < MaxRunTime /\ WatcherTick

RNext ==
    \/ RunNotify \/ WatchError \/ WatcherRunStart \/ TickerFire
    \/ WatcherRunEvent \/ WatcherRunError \/ CreateProbeAdded
    \/ WatcherRunFlush \/ HandlerStart \/ HandlerReturnUntraced \/ RunTick
    \/ Cancel \/ WatcherRunCtxDone \/ WatcherClose \/ WatcherRunClosed

SpecR == WInit /\ [][RNext]_vars

(* SpecL: Run under fair scheduling.  A step of Run that can be taken is  *)
(* taken at last: the ticker fires when it is due, a select with a ready   *)
(* case proceeds, a Handler call returns, and time passes while Run waits. *)
(* Notifications arrive and the context is cancelled at will.              *)
LiveNotify == wsent < MaxLiveNotify /\ Notify
LiveTick == now < MaxLiveTime /\ WatcherTick
RunStep ==
    \/ WatcherRunStart \/ TickerFire \/ WatcherRunEvent \/ WatcherRunFlush
    \/ HandlerStart \/ HandlerReturnUntraced \/ WatcherRunCtxDone
    \/ LiveTick

LNext == LiveNotify \/ Cancel \/ RunStep

SpecL == WInit /\ [][LNext]_vars /\ WF_vars(RunStep)

(* SpecP: the Poller scanning a tree that changes.  The files of the tree  *)
(* were last written at time 1; the clock reads 2 when Run is entered.     *)
PInit ==
    /\ now = 2 /\ cancelled = FALSE /\ fs = InitFs /\ nfsops = 0
    /\ rootName \in RootNames /\ addrec = InitA
    /\ spc = "select"
    /\ InitW /\ InitP /\ InitH
    /\ skipDirs \in {DefaultSkipDirs, DefaultSkipDirs \cup ConfiguredSkipDirs}

(* the walk step without the record of the Handler's other errors, which  *)
(* only the properties of SpecE read                                       *)
WalkStepUntraced == WalkStep /\ perrRet' = perrRet

PNext ==
    \/ PollerRunStart \/ WalkStepUntraced \/ ScanEnd \/ PollerTickerFire
    \/ PollerRunTick \/ FsWrite \/ FsCreate \/ FsRemove \/ FsRemoveDir
    \/ Tick

SpecP == PInit /\ [][PNext]_vars

(* SpecK: the Poller while another goroutine calls SetSkipDir.  A step of  *)
(* Scan that locks p.mu waits while the caller holds it; the walk step of  *)
(* the first Scan locks nothing.  A map read that meets the write either   *)
(* sees the set before or after it, or the runtime ends the process.       *)
KRunStart == PMuFree /\ PollerRunStart
KRunTick == PMuFree /\ PollerRunTick
KScanEnd == PMuFree /\ ScanEnd
KWalkStep == (WalkTakesMu => PMuFree) /\ WalkStepUntraced

KNext ==
    \/ KRunStart \/ KWalkStep \/ KScanEnd \/ PollerTickerFire \/ KRunTick
    \/ SetSkipDirLock \/ SetSkipDirWrite \/ SetSkipDirUnlock
    \/ ConcurrentMapFault

SpecK == PInit /\ [][KNext]_vars

(* SpecA: serve's call of AddRecursive, under either kind of root name,   *)
(* while entries of the tree vanish.                                       *)
ANext ==
    \/ AddRecursiveStart \/ AddRecursiveStep \/ AddRecursiveReturn
    \/ FsRemove \/ FsRemoveDir

SpecA == PInit /\ [][ANext]_vars

(* SpecE: the Poller's walk with its errors on record.  Entries vanish     *)
(* while a Scan walks (d.Info and os.ReadDir fail for them) and the        *)
(* Handler answers errors; the clock stands still.                         *)
ENext ==
    \/ PollerRunStart \/ WalkStep \/ ScanEnd \/ PollerTickerFire
    \/ PollerRunTick \/ FsRemove \/ FsRemoveDir

SpecE == PInit /\ [][ENext]_vars

(* SpecS: serve.  Both Run loops under the one cancellation token; the    *)
(* tree stands still.                                                      *)
(* the one raw notification of SpecS: subdirectory a/b has been created *)
ServeEvent == [Name |-> <<"a", "b">>, Op |-> {"Create"}]
ServeNotify ==
    /\ wsent < MaxServeNotify
    /\ Notify
    /\ wevents'[Len(wevents')] = ServeEvent
ServeScan == nscan < MaxServeScans /\ PollerRunTick
ServeTick == now < MaxServeTime /\ WatcherTick

(* the files of the tree were last written at time 1; the clock reads 2   *)
(* when serve starts the two loops                                         *)
(* the tree serve is started on holds no .idea directory                   *)
ServeFs ==
    [p \in Paths |->
       [InitFs[p] EXCEPT !.exists = @ /\ ~IsBelow(p, <<".idea">>)
                                      /\ p # <<".idea">>]]
SInit ==
    /\ now = 2 /\ cancelled = FALSE /\ fs = ServeFs /\ nfsops = 0
    /\ rootName = "r" /\ addrec = InitA
    /\ spc = "select"
    /\ InitW /\ InitP /\ InitH /\ skipDirs = DefaultSkipDirs


(* wg.Wait() returns when both goroutines have called wg.Done(), that is  *)
(* when both Run calls have returned; serve returns nil and its deferred  *)
(* w.Close() and cancel() run                                              *)
ServeReturnEarly == spc = "wait"
ServeWaited == spc = "wait" /\ wpc = "done" /\ ppc = "done"
ServeReturn ==
    /\ ServeWaited
    /\ spc' = "returned"
    /\ wclosed' = TRUE
    /\ wevents' = << >>
    /\ werrs' = 0
    /\ cancelled' = TRUE
    /\ UNCHANGED <<rootName, addrec, now, fs, nfsops, pvars, hvars, wpc, wret, pending, toProcess,
                   wcur, tickC, nextTick, watches, probes, wprobed, wsent, wburst,
                   wopened, wcalls, stalled>>

SNext ==
    \/ ServeNotify \/ WatcherRunStart \/ TickerFire \/ WatcherRunEvent
    \/ CreateProbeAdded \/ WatcherRunFlush \/ HandlerStart \/ HandlerReturnUntraced
    \/ ServeTick \/ WatcherRunCtxDone
    \/ PollerRunStart \/ WalkStepUntraced \/ ScanEnd \/ PollerTickerFire
    \/ ServeScan
    \/ PollerRunCtxDone \/ Cancel

SpecS == SInit /\ [][SNext]_vars

(* SpecO: serve to its return, with the scheduling the code relies on.    *)
(* The source reports writes to a/b, the Handler returns no ErrSkipDir.   *)
(* Each goroutine that can take a step takes one at last: every Handler   *)
(* call and every Scan step terminates, and a select with a ready case    *)
(* proceeds (weak fairness per goroutine).                                 *)
OrchEvent == [Name |-> <<"a", "b">>, Op |-> {"Write"}]
OrchNotify ==
    /\ wsent < MaxServeNotify
    /\ Notify
    /\ wevents'[Len(wevents')] = OrchEvent
OrchWalkStep == WalkStep /\ pskipRet' = pskipRet /\ perrRet' = perrRet

WatcherStep ==
    \/ WatcherRunStart \/ WatcherRunEvent \/ WatcherRunFlush \/ HandlerStart
    \/ HandlerReturnUntraced \/ WatcherRunCtxDone
PollerStep ==
    \/ PollerRunStart \/ OrchWalkStep \/ ScanEnd \/ ServeScan
    \/ PollerRunCtxDone

ONext ==
    \/ OrchNotify \/ TickerFire \/ ServeTick \/ PollerTickerFire \/ Cancel
    \/ WatcherStep \/ PollerStep \/ ServeReturn

SpecO ==
    /\ SInit /\ [][ONext]_vars
    /\ WF_vars(WatcherStep) /\ WF_vars(PollerStep) /\ WF_vars(ServeReturn)

(* SpecH: the Handler invoked by the two components; dry-run or not is    *)
(* decided when the daemon starts.                                         *)
(* SpecX: serve from its call of AddRecursive on, with the errors the    *)
(* components absorb: w.Add fails, the source reports errors, the Handler  *)
(* returns errors to the Poller (not ErrSkipDir) and the Watcher.  The two *)
(* loops start when AddRecursive has returned; w.Add succeeds for the root *)
(* (the source has something to report) and may fail below it.             *)
ServeAddStep == AddRecursiveStep /\ Root \in watches'
ServeWatcherStart == addrec.pc = "done" /\ WatcherRunStart
ServePollerStart == addrec.pc = "done" /\ PollerRunStart
ServeWalkStep == WalkStep /\ pskipRet' = pskipRet
XNext ==
    \/ AddRecursiveStart \/ ServeAddStep \/ AddRecursiveReturn
    \/ ServeWatcherStart \/ OrchNotify \/ WatchError \/ WatcherRunError
    \/ TickerFire \/ ServeTick \/ WatcherRunEvent \/ WatcherRunFlush
    \/ HandlerStart \/ HandlerReturnUntraced \/ WatcherRunCtxDone
    \/ ServePollerStart \/ ServeWalkStep \/ ScanEnd \/ PollerTickerFire
    \/ ServeScan \/ PollerRunCtxDone \/ Cancel

(* serve is started on a root that holds the one directory a             *)
XFs == [p \in Paths |-> [InitFs[p] EXCEPT !.exists = p \in {Root, <<"a">>}]]
XInit ==
    /\ now = 2 /\ cancelled = FALSE /\ fs = XFs /\ nfsops = 0
    /\ rootName = "r" /\ addrec = InitA
    /\ spc = "select"
    /\ InitW /\ InitP /\ InitH /\ skipDirs = DefaultSkipDirs

SpecX == XInit /\ [][XNext]_vars

(* SpecN: the Watcher while directories are made under the root.  The    *)
(* root and a are watched (AddRecursive has run); the source reports what  *)
(* happens in a watched directory.  A probe goroutine that is started runs *)
(* at last (weak fairness).                                                *)
NFs == [p \in Paths |-> [InitFs[p] EXCEPT !.exists = p \in {Root, <<"a">>}]]
NewDirs == {<<"a", "b">>, <<"node_modules">>}

(* the notification source: an event for an entry of a watched directory *)
SourceReports(p, op) ==
    wevents' = IF Parent(p) \in watches
               THEN Append(wevents, [Name |-> p, Op |-> {op}])
               ELSE wevents

(* what the writers' steps leave alone *)
WriterFrame ==
    UNCHANGED <<now, cancelled, spc, rootName, addrec, hvars, pvars, wpc,
                wret, werrs, wclosed, pending, toProcess, wcur, tickC,
                nextTick, watches, probes, wprobed, wsent, wburst, wopened,
                wcalls, stalled>>

(* mkdir d *)
MkDir ==
    /\ nfsops < MaxDirOps
    /\ \E d \in NewDirs :
          /\ ~Exists(d) /\ Exists(Parent(d))
          /\ fs' = [fs EXCEPT ![d].exists = TRUE, ![d].mtime = now,
                              ![Parent(d)].mtime = now]
          /\ SourceReports(d, "Create")
    /\ nfsops' = nfsops + 1
    /\ WriterFrame

(* the file a/b/y is created in the new directory a/b *)
CreateInNewDir ==
    /\ nfsops < MaxDirOps
    /\ LET f == <<"a", "b", "y">>
       IN  /\ ~Exists(f) /\ Exists(Parent(f))
           /\ fs' = [fs EXCEPT ![f].exists = TRUE, ![f].mtime = now,
                               ![Parent(f)].mtime = now]
           /\ SourceReports(f, "Create")
    /\ nfsops' = nfsops + 1
    /\ WriterFrame

(* rmdir -r a/b *)
RmDir ==
    /\ nfsops < MaxDirOps
    /\ LET d == <<"a", "b">>
       IN  /\ Exists(d)
           /\ fs' = [q \in Paths |->
                      IF q = d \/ IsBelow(q, d)
                      THEN [fs[q] EXCEPT !.exists = FALSE]
                      ELSE IF q = Parent(d) THEN [fs[q] EXCEPT !.mtime = now]
                      ELSE fs[q]]
           /\ SourceReports(d, "Remove")
    /\ nfsops' = nfsops + 1
    /\ WriterFrame

NInit ==
    /\ now = 0 /\ cancelled = FALSE /\ fs = NFs /\ nfsops = 0
    /\ rootName = "r" /\ addrec = InitA
    /\ spc = "select"
    /\ InitP /\ InitH /\ skipDirs = DefaultSkipDirs
    /\ wpc = "init" /\ wret = "none"
    /\ wevents = << >> /\ werrs = 0 /\ wclosed = FALSE
    /\ pending = << >> /\ toProcess = {} /\ wcur = NoEvent
    /\ tickC = FALSE /\ nextTick = 0
    /\ watches = {Root, <<"a">>} /\ probes = {} /\ wprobed = << >>
    /\ wsent = 0 /\ wburst = << >> /\ wopened = [p \in WPaths |-> 0]
    /\ wcalls = << >> /\ stalled = FALSE

(* mkdir a, then mkdir a/b: the second is reported only if a is watched   *)
(* by then                                                                 *)
NestedDirs == {<<"a">>, <<"a", "b">>}
MkDirNested ==
    /\ nfsops < MaxDirOps
    /\ \E d \in NestedDirs :
          /\ ~Exists(d) /\ Exists(Parent(d))
          /\ fs' = [fs EXCEPT ![d].exists = TRUE, ![d].mtime = now,
                              ![Parent(d)].mtime = now]
          /\ SourceReports(d, "Create")
    /\ nfsops' = nfsops + 1
    /\ WriterFrame

NewDirTick == now < MaxDirTime /\ WatcherTick
NNext ==
    \/ MkDir \/ CreateInNewDir \/ RmDir
    \/ WatcherRunStart \/ TickerFire \/ WatcherRunEvent \/ CreateProbe
    \/ WatcherRunFlush \/ HandlerStart \/ HandlerReturnUntraced \/ NewDirTick

SpecN == NInit /\ [][NNext]_vars /\ WF_vars(CreateProbe)

(* SpecD: the Watcher while a directory and a directory inside it are     *)
(* made under the root, the only directory watched at the start.           *)
DFs == [p \in Paths |-> [InitFs[p] EXCEPT !.exists = p = Root]]
DInit ==
    /\ now = 0 /\ cancelled = FALSE /\ fs = DFs /\ nfsops = 0
    /\ rootName = "r" /\ addrec = InitA
    /\ spc = "select"
    /\ InitP /\ InitH /\ skipDirs = DefaultSkipDirs
    /\ wpc = "init" /\ wret = "none"
    /\ wevents = << >> /\ werrs = 0 /\ wclosed = FALSE
    /\ pending = << >> /\ toProcess = {} /\ wcur = NoEvent
    /\ tickC = FALSE /\ nextTick = 0
    /\ watches = {Root} /\ probes = {} /\ wprobed = << >>
    /\ wsent = 0 /\ wburst = << >> /\ wopened = [p \in WPaths |-> 0]
    /\ wcalls = << >> /\ stalled = FALSE

DNext ==
    \/ MkDirNested
    \/ WatcherRunStart \/ TickerFire \/ WatcherRunEvent \/ CreateProbe
    \/ WatcherRunFlush \/ HandlerStart \/ HandlerReturnUntraced \/ NewDirTick

SpecD == DInit /\ [][DNext]_vars /\ WF_vars(CreateProbe)

HInit ==
    /\ now = 0 /\ cancelled = FALSE /\ nfsops = 0
    /\ fs = [InitFs EXCEPT ![<<"f">>].exists = TRUE]
    /\ rootName = "r" /\ addrec = InitA
    /\ spc = "select"
    /\ InitW /\ InitP /\ skipDirs = DefaultSkipDirs
    /\ hpc = [c \in Comp |-> "idle"]
    /\ hpath = [c \in Comp |-> Root]
    /\ hinfo = [c \in Comp |-> NoInfo]
    /\ xattr = {} /\ cache = << >> /\ dryRun \in BOOLEAN
    /\ ncalls = 0 /\ nfail = 0
    /\ hsets = [c \in Comp |-> [p \in HPaths |-> 0]]
    /\ hdone = [c \in Comp |-> [p \in HPaths |-> 0]]
    /\ hrets = {}
    /\ clook = NoLook /\ cadds = << >>
    /\ ignf = InitIgn /\ mcache = << >> /\ mlook = NoMLook

HNext ==
    \/ HandlerCall \/ HandlerHas \/ HandlerShouldIgnore \/ HandlerIsIgnored
    \/ HandlerAddIgnored \/ HandlerSetIgnored \/ HandlerAdd \/ Tick

SpecH == HInit /\ [][HNext]_vars

CInit ==
    /\ now = 0 /\ cancelled = FALSE /\ nfsops = 0 /\ fs = InitFs
    /\ rootName = "r" /\ addrec = InitA /\ spc = "select"
    /\ InitW /\ InitP /\ skipDirs = DefaultSkipDirs
    /\ InitH

CNext == ClientAdds \/ ClientLooksUp \/ ClientRemoves \/ Tick

SpecC == CInit /\ [][CNext]_vars

(* SpecM: the Matcher under a client that asks, clears, invalidates and   *)
(* rewrites the ignore files.                                              *)
MNext == MatcherAsked \/ ClearCache \/ MatcherInvalidated \/ IgnoreFileWritten

SpecM == CInit /\ [][MNext]_vars

----------------------------------------------------------------------------
(* Properties of the Watcher, checked under SpecW. *)

CallsFor(p) == {i \in 1..Len(wcalls) : wcalls[i].path = p}
InFlight(p) == IF p \in DOMAIN wburst THEN 1 ELSE 0

(* C1 Debounce coalescing.  Notifications for one path that are received   *)
(* less than Debounce apart are never split over two dispatched events:    *)
(* any notification that is dispatched later than, or is still pending     *)
(* after, a Handler call for the path was received at least Debounce after *)
(* every notification folded into that call.  And a pending entry is       *)
(* handed to the Handler exactly once: the entries created for a path are  *)
(* the Handler calls made for it plus the one still buffered or batched.   *)
C1_DebounceCoalescing ==
    \A p \in WPaths :
       /\ \A i \in CallsFor(p), j \in CallsFor(p) :
             i < j => wcalls[j].first - wcalls[i].last >= Debounce
       /\ \A i \in CallsFor(p) :
             p \in DOMAIN wburst => wburst[p].first - wcalls[i].last >= Debounce
       /\ wopened[p] = Cardinality(CallsFor(p)) + InFlight(p)
       /\ p \in DOMAIN pending => p \in DOMAIN wburst

(* three notifications received within one debounce window, with a flush   *)
(* tick between the first and the last, reached the Handler as one event   *)
C1_Witness ==
    \E i \in 1..Len(wcalls) :
       /\ wcalls[i].n >= 3
       /\ wcalls[i].last - wcalls[i].first > FlushInterval
       /\ wcalls[i].last - wcalls[i].first < Debounce
       /\ Cardinality(CallsFor(wcalls[i].path)) = 1
       /\ wopened[wcalls[i].path] = 1
       /\ wpc = "select"

(* C2 as claimed: a Handler call comes no later than Debounce +            *)
(* FlushInterval after the FIRST notification folded into it (stated for   *)
(* the runs in which no Handler call ever held up the loop).               *)
C2_UpperBoundFromFirst ==
    ~stalled =>
       \A i \in 1..Len(wcalls) :
          wcalls[i].at - wcalls[i].first <= Debounce + FlushInterval

(* C2 amended: as long as no Handler call has held up the loop, a Handler  *)
(* call comes no later than Debounce + FlushInterval after the LAST        *)
(* notification folded into it, and no entry stays buffered longer.        *)
C2_UpperBoundFromLast ==
    ~stalled =>
       /\ \A i \in 1..Len(wcalls) :
             wcalls[i].at - wcalls[i].last <= Debounce + FlushInterval
       /\ wpc \in {"select", "batch", "handling"} =>
             \A p \in DOMAIN wburst :
                now - wburst[p].last <= Debounce + FlushInterval

(* a call made more than Debounce + FlushInterval after its first, and     *)
(* within that of its last notification                                    *)
C2_Witness ==
    /\ ~stalled
    /\ \E i \in 1..Len(wcalls) :
          /\ wcalls[i].n >= 2
          /\ wcalls[i].at - wcalls[i].first > Debounce + FlushInterval
          /\ wcalls[i].at - wcalls[i].last > Debounce

(* C3 Debounce lower bound.  No Handler call is made earlier than Debounce *)
(* after the first notification folded into the dispatched event (nor      *)
(* earlier than Debounce after the last one).                              *)
C3_LowerBound ==
    \A i \in 1..Len(wcalls) :
       /\ wcalls[i].at - wcalls[i].first >= Debounce
       /\ wcalls[i].at - wcalls[i].last >= Debounce

(* a call made exactly Debounce after its only notification *)
C3_Witness ==
    \E i \in 1..Len(wcalls) :
       wcalls[i].n = 1 /\ wcalls[i].at - wcalls[i].first = Debounce

(* C4 as claimed: while a Handler call made by the flush path is           *)
(* executing, a notification that has arrived can be received and written  *)
(* into the pending buffer.                                                *)
C4_IngestionDuringHandler ==
    (wpc = "handling" /\ wevents # << >>) => ENABLED WatcherRunEvent

(* C4 amended: the Handler runs on Run's own goroutine, so while a Handler *)
(* call is executing no notification is received: the pending buffer does  *)
(* not change and the notifications that arrive stay in the channel until  *)
(* the batch is done.                                                      *)
C4_HandlerBlocksIngestion ==
    [][wpc = "handling" =>
          /\ pending' = pending
          /\ Len(wevents') >= Len(wevents)]_vars

(* a relevant notification waits in the channel while a Handler call that  *)
(* has taken time is executing                                             *)
C4_Witness ==
    /\ wpc = "handling"
    /\ stalled
    /\ wevents # << >>
    /\ IsRelevantOp(Head(wevents).Op)
    /\ Head(wevents).Name \notin DOMAIN pending

----------------------------------------------------------------------------
(* Properties of the Poller (SpecP) *)

Handled == {phandled[i] : i \in 1..Len(phandled)}
ScanDone == ppc = "select"
(* p lies below a directory the Scan does not descend into: one named in  *)
(* the skip set (or dotted), or one the Handler returned ErrSkipDir for   *)
BelowSkipNamed(p) ==
    \E d \in Dirs : IsBelow(p, d) /\ PollerSkipsName(Name(d))
BelowSkipRet(p) == \E d \in pskipRet : IsBelow(p, d)
(* directory d is there, and nothing in its subtree, d included, was      *)
(* added, removed or modified at or after time t                           *)
UnchangedSince(d, t) ==
    /\ Exists(d)
    /\ \A q \in Paths : (q = d \/ IsBelow(q, d)) => fs[q].mtime < t

(* C5: when the Handler returns ErrSkipDir for directory D during a Scan, *)
(* that Scan has called the Handler for D and calls it for nothing below  *)
(* D; and entries outside D are still visited: a first Scan over a tree   *)
(* that stands still calls the Handler for every entry that is not below  *)
(* such a D or below a skip-named directory.                               *)
C5_SkipSubtreePruning ==
    /\ \A D \in pskipRet :
          /\ D \in Handled
          /\ \A q \in Paths : IsBelow(q, D) => q \notin Handled
    /\ (ScanDone /\ nscan = 1 /\ pquiet) =>
          \A q \in Paths :
             (Exists(q) /\ ~BelowSkipRet(q) /\ ~BelowSkipNamed(q))
                => q \in Handled

(* the Handler returned ErrSkipDir for a (which has entries below it), and *)
(* the walk went on to f and node_modules                                  *)
C5_Witness ==
    /\ ScanDone
    /\ <<"a">> \in pskipRet
    /\ Exists(<<"a", "x.log">>)
    /\ <<"f">> \in Handled
    /\ <<"node_modules">> \in Handled

(* C6: in every Scan after the first (over a tree that stands still while *)
(* it is walked), every regular file whose modification time is at or     *)
(* after the previous Scan's start, and which is not below a skip-set     *)
(* directory or a directory the Handler returned ErrSkipDir for, is       *)
(* passed to the Handler.                                                  *)
C6_ScanCompleteness ==
    (ScanDone /\ nscan >= 2 /\ pquiet) =>
       \A f \in Files :
          (Exists(f) /\ fs[f].mtime >= lastScanL
             /\ ~BelowSkipNamed(f) /\ ~BelowSkipRet(f))
            => f \in Handled

(* C7 as stated: a directory unchanged between two consecutive Scans is   *)
(* passed to the Handler by the second Scan, and none of its descendants  *)
(* (files or subdirectories) is.                                           *)
C7_IncrementalSkip ==
    (ScanDone /\ nscan >= 2) =>
       \A D \in Dirs :
          UnchangedSince(D, lastScanL) =>
             /\ D \in visitedDirs => D \in Handled
             /\ \A q \in Paths : IsBelow(q, D) => q \notin Handled

(* C7, amended: a directory unchanged between two consecutive Scans is    *)
(* passed to the Handler by the second Scan if the walk reaches it, and   *)
(* no regular file below it is.                                            *)
C7_IncrementalSkipFiles ==
    nscan >= 2 =>
       \A D \in Dirs :
          UnchangedSince(D, lastScanL) =>
             /\ (ScanDone /\ D \in visitedDirs) => D \in Handled
             /\ \A f \in Files : IsBelow(f, D) => f \notin Handled

(* the second Scan is over: a is unchanged, was handled and descended     *)
(* into; its subdirectory b was handled, its file x.log was not            *)
C7_Witness ==
    /\ ScanDone /\ nscan = 2
    /\ UnchangedSince(<<"a">>, lastScanL)
    /\ <<"a">> \in Handled
    /\ <<"a", "b">> \in Handled
    /\ Exists(<<"a", "x.log">>)
    /\ <<"a", "x.log">> \notin Handled

----------------------------------------------------------------------------
(* Properties of the Decision Handler (SpecH) *)

(* no invocation for p is running *)
Quiescent(p) == \A c \in Comp : hpc[c] = "idle" \/ hpath[c] # p
Completed(p) == \E c \in Comp : hdone[c][p] > 0
SetCount(p) == hsets["scanner"][p] + hsets["watcher"][p]

(* C8: however a Scanner-driven and a Watcher-driven invocation for the   *)
(* same ignorable path interleave, no invocation returns an error other   *)
(* than ErrSkipDir; and (not in dry-run, the matcher and the attribute    *)
(* store not failing) once the invocations have returned the path is      *)
(* tagged and the dedup cache holds its entry.                             *)
C8_IdempotentTagging ==
    /\ hrets \subseteq {"nil", "skip"}
    /\ \A p \in HPaths :
          (MatcherMatches(p) /\ Completed(p) /\ Quiescent(p)
             /\ ~dryRun /\ nfail = 0)
            => (p \in xattr /\ p \in DOMAIN cache)

(* the race: both components wrote the tag of node_modules (each had read *)
(* "not tagged" before the other wrote), and both have returned            *)
C8_Witness ==
    /\ hsets["scanner"][<<"node_modules">>] = 1
    /\ hsets["watcher"][<<"node_modules">>] = 1
    /\ Quiescent(<<"node_modules">>)
    /\ hdone["scanner"][<<"node_modules">>] = 1
    /\ hdone["watcher"][<<"node_modules">>] = 1
    /\ <<"node_modules">> \in xattr
    /\ <<"node_modules">> \in DOMAIN cache

----------------------------------------------------------------------------
(* Properties of serve (SpecS) *)

(* C10 as stated: once the token is triggered a Scan walk in progress     *)
(* stops at the next step, the Handler is called for no further entry,    *)
(* and the Run loops return the cancellation error.                        *)
C10_PromptCancellation ==
    /\ ~pafter
    /\ ppc = "done" => pret = "Canceled"
    /\ wpc = "done" => wret = "Canceled"

(* C10, amended: the Run loops return only from their select, after the   *)
(* token was triggered and with the cancellation error; Poller.Run does   *)
(* not return while a walk has entries left to visit, Watcher.Run not     *)
(* while a batch has events left to hand to the Handler.                   *)
C10_CancellationAtSelect ==
    /\ ppc = "done" => (cancelled /\ pret = "Canceled" /\ todo = << >>)
    /\ wpc = "done" =>
          (cancelled /\ wret = "Canceled" /\ toProcess = {} /\ wcur = NoEvent)

(* both loops have returned, and the walk that was in progress when the   *)
(* token was triggered went on calling the Handler                         *)
C10_Witness ==
    /\ cancelled /\ ppc = "done" /\ wpc = "done"
    /\ pafter
    /\ Len(phandled) > 1

(* what holds of Run at every moment: no Scan and no tick before Run is   *)
(* entered, a Scan started as soon as it is, no return from inside a walk, *)
(* no return value but the context's cancellation error                    *)
RunScanState ==
    /\ ppc = "init" => (nscan = 0 /\ ~ptickC)
    /\ ppc # "init" => (nscan >= 1 /\ lastScan # 0)
    /\ ppc = "done" => (cancelled /\ pret = "Canceled")
    /\ ppc # "done" => pret = "none"
    /\ ppc = "walk" => ~ENABLED PollerRunCtxDone

(* C11: Poller.Run starts one Scan on entry, before any tick can be       *)
(* waited for, and afterwards starts a Scan only by receiving a tick, one *)
(* Scan per tick; it returns nothing but the cancellation error of its    *)
(* context; and once it has returned a Scan has started, so that          *)
(* GetLastScan (p.lastScan) is not the zero time.                          *)
C11_RunScansThenTicks ==
    /\ []RunScanState
    /\ [][nscan' # nscan =>
             /\ nscan' = nscan + 1
             /\ ppc = "init" \/ (ppc = "select" /\ ptickC /\ ~ptickC')]_vars

(* Run has returned after its initial Scan and one Scan for a tick *)
C11_Witness ==
    /\ ppc = "done" /\ pret = "Canceled"
    /\ nscan = 2
    /\ lastScan # 0 /\ lastScanL # 0

(* C12: serve returns only after both Watcher.Run and Poller.Run have     *)
(* returned, and once the cancellation token is triggered serve does      *)
(* return (every Handler call and every Scan terminating).                 *)
C12_OrchestratorShutdown ==
    /\ [](spc = "returned" => (wpc = "done" /\ ppc = "done"))
    /\ (cancelled ~> spc = "returned")

(* serve has returned after a cancellation that found a walk in progress  *)
C12_Witness ==
    /\ spc = "returned"
    /\ wpc = "done" /\ ppc = "done"
    /\ pafter

(* C13: a directory that has an entry in p.dirModTime when a Scan starts  *)
(* and was deleted (or renamed away) before that Scan started has no      *)
(* entry when the Scan is over; the Scan leaves entries only for          *)
(* directories its walk visited.                                           *)
C13_StaleFingerprintCleanup ==
    ScanDone =>
       /\ \A D \in Dirs :
             (D \in DOMAIN dirModTimeL /\ ~Exists(D) /\ pquiet)
                => D \notin DOMAIN dirModTime
       /\ DOMAIN dirModTime \subseteq visitedDirs

(* a/b had an entry, was deleted before the Scan, and the Scan is over   *)
C13_Witness ==
    /\ ScanDone /\ pquiet
    /\ <<"a", "b">> \in DOMAIN dirModTimeL
    /\ ~Exists(<<"a", "b">>)
    /\ <<"a", "b">> \notin DOMAIN dirModTime

(* the place of path p in the order of this Scan's Handler calls, 0 if    *)
(* the Handler has not been called for p                                   *)
HandledAt(p) ==
    IF p \in Handled THEN CHOOSE i \in 1..Len(phandled) : phandled[i] = p
    ELSE 0

(* C14: within one Scan the Handler is called for a directory before it   *)
(* is called for any entry below it, and it is called for no entry whose  *)
(* parent directory was not passed to it earlier in the same Scan.         *)
C14_ParentBeforeChild ==
    \A i \in 1..Len(phandled) :
       /\ phandled[i] # Root =>
             \E j \in 1..(i - 1) : phandled[j] = Parent(phandled[i])
       /\ \A d \in Dirs :
             IsBelow(phandled[i], d) => (d \in Handled /\ HandledAt(d) < i)

(* the Scan is over and has called the Handler for a, then a/b, then      *)
(* a/b/y                                                                   *)
C14_Witness ==
    /\ ScanDone
    /\ <<"a", "b", "y">> \in Handled
    /\ HandledAt(<<"a">>) < HandledAt(<<"a", "b">>)
    /\ HandledAt(<<"a", "b">>) < HandledAt(<<"a", "b", "y">>)

(* the rule as the specification words it: the name is in the skip set    *)
(* (the default names and the configured ones) or begins with a dot        *)
SkipRule(name) == name \in skipDirs \/ HasDotPrefix(name)
BelowSkipRule(p) ==
    \E d \in Dirs \ {Root} : IsBelow(p, d) /\ SkipRule(Name(d))

(* C15: for every directory other than the root whose name is in the skip  *)
(* set or begins with a dot, a Scan calls the Handler for nothing below    *)
(* it, and a first Scan over a tree that stands still (under a root with   *)
(* a plain name) calls the Handler for the directory itself and for every  *)
(* entry that is not below such a directory or below one the Handler       *)
(* returned ErrSkipDir for.                                                *)
C15_StaticSkipSetPruning ==
    /\ \A D \in Dirs \ {Root} :
          SkipRule(Name(D)) =>
             \A q \in Paths : IsBelow(q, D) => q \notin Handled
    /\ (ScanDone /\ nscan = 1 /\ pquiet /\ ~HasDotPrefix(rootName)) =>
          \A q \in Paths :
             (Exists(q) /\ ~BelowSkipRule(q) /\ ~BelowSkipRet(q))
                => q \in Handled

(* a first Scan with the configured name b is over: it handled .idea, a/b  *)
(* and node_modules but nothing in them, and it handled a/x.log            *)
C15_Witness ==
    /\ ScanDone /\ nscan = 1 /\ pquiet
    /\ "b" \in skipDirs
    /\ {<<".idea">>, <<"a", "b">>, <<"node_modules">>} \subseteq Handled
    /\ Exists(<<".idea", "w">>) /\ <<".idea", "w">> \notin Handled
    /\ Exists(<<"a", "b", "y">>) /\ <<"a", "b", "y">> \notin Handled
    /\ Exists(<<"node_modules", "z">>)
    /\ <<"node_modules", "z">> \notin Handled
    /\ <<"a", "x.log">> \in Handled

(* C16: when the monitored root's own name begins with a dot, a first      *)
(* Scan over a tree that stands still goes down into the root: it calls    *)
(* the Handler for the entries of the root directory.                      *)
C16_RootExemption ==
    (ScanDone /\ nscan = 1 /\ pquiet /\ HasDotPrefix(rootName)) =>
       \A q \in Paths :
          (Parent(q) = Root /\ q # Root /\ Exists(q)) => q \in Handled

(* the entries still to be walked before a step are still to be walked    *)
(* after it                                                                *)
RestKept ==
    /\ Len(todo') >= Len(todo) - 1
    /\ SubSeq(todo', Len(todo') - Len(todo) + 2, Len(todo')) = Tail(todo)

(* C17: no step of a Scan's walk drops an entry that is still to be        *)
(* walked, whatever fails at the entry it visits (the entry has vanished,  *)
(* so that d.Info and os.ReadDir fail, or the Handler returns an error     *)
(* other than ErrSkipDir); a directory the Handler returned such an error  *)
(* for is read and walked like any other; and a first Scan calls the       *)
(* Handler for every entry that is there to the end of it and is not below *)
(* a directory that is pruned (entries only vanish in SpecE, so such an    *)
(* entry was there throughout).                                            *)
C17_BestEffortWalk ==
    /\ []((ScanDone /\ nscan = 1) =>
            \A q \in Paths :
               (Exists(q) /\ ~BelowSkipNamed(q) /\ ~BelowSkipRet(q))
                  => q \in Handled)
    /\ [][(ppc = "walk" /\ ppc' = "walk" /\ todo' # todo) =>
            /\ RestKept
            /\ \A d \in perrRet' \ perrRet :
                  \/ PollerSkipsName(Name(d))
                  \/ lastScanL # 0 /\ shouldSkipDir(d, Stat(d).mtime)
                  \/ todo' = ReadDir(d) \o Tail(todo)]_vars

(* a first Scan is over in which the Handler returned an error for a, a/b  *)
(* had vanished when the walk came to it, and the Handler was called for   *)
(* a/x.log and for node_modules after that                                 *)
C17_Witness ==
    /\ ScanDone /\ nscan = 1
    /\ <<"a">> \in perrRet
    /\ ~Exists(<<"a", "b">>)
    /\ <<"a", "b">> \in visitedDirs /\ <<"a", "b">> \notin Handled
    /\ HandledAt(<<"a">>) < HandledAt(<<"a", "x.log">>)
    /\ HandledAt(<<"a", "x.log">>) < HandledAt(<<"node_modules">>)

(* directory d is one AddRecursive walks to and calls w.Add for: neither  *)
(* it nor a directory above it has a name the walk function skips          *)
Eligible(d) ==
    /\ ~AddRecursiveSkipsName(Name(d))
    /\ \A e \in Dirs : IsBelow(d, e) => ~AddRecursiveSkipsName(Name(e))

HandledTimes(p) == Cardinality({i \in 1..Len(phandled) : phandled[i] = p})

(* C19: the first Scan calls the Handler at most once for an entry, and    *)
(* when it is over (the tree having stood still, under a root with a plain *)
(* name) it has called the Handler exactly once for every file and         *)
(* directory that is not below a directory of the skip rule or one the     *)
(* Handler returned ErrSkipDir for, whatever the modification times are.   *)
C19_FirstScanCoverage ==
    nscan = 1 =>
       /\ \A q \in Paths : HandledTimes(q) <= 1
       /\ (ScanDone /\ pquiet /\ ~HasDotPrefix(rootName)) =>
             \A q \in Paths :
                (Exists(q) /\ ~BelowSkipRule(q) /\ ~BelowSkipRet(q))
                   => HandledTimes(q) = 1

(* the first Scan is over; it started at time 2 or later and has called    *)
(* the Handler for the files a/b/y and a/x.log, last written at time 1,    *)
(* and for the file f, created after that                                  *)
C19_Witness ==
    /\ ScanDone /\ nscan = 1 /\ pquiet /\ rootName = "r"
    /\ lastScan >= 2
    /\ fs[<<"a", "b", "y">>].mtime = 1 /\ fs[<<"f">>].mtime >= 2
    /\ \A q \in {<<"a", "b", "y">>, <<"a", "x.log">>, <<"f">>} :
          Exists(q) /\ HandledTimes(q) = 1

(* the probe of p would call w.Add: p is there, is a directory and its     *)
(* name is none of node_modules, .git, .dropbox.cache, .svn, .hg and does  *)
(* not begin with a dot                                                    *)
SkipSetName(name) == name \in DefaultSkipDirs \/ HasDotPrefix(name)
ProbePasses(p) == Exists(p) /\ IsDir(p) /\ ~SkipSetName(Name(p))

(* C21 as stated: every created directory that is there when it is probed *)
(* and does not match the skip-set is watched once its probe has run.      *)
C21_NewDirectoryWatched == \A p \in DOMAIN wprobed : p \in watches

(* C21: a probe that is started runs at last; when it runs and the path is *)
(* a directory that is there and does not match the skip-set, the          *)
(* directory is watched unless w.Add failed, and otherwise the watches are *)
(* as they were; no directory matching the skip-set is ever watched; and   *)
(* the step of the event loop that starts a probe leaves the loop at its   *)
(* select with the watches as they were.                                   *)
C21_NewDirectoryWatchedUnlessAddFails ==
    /\ [](\A p \in WPaths : SkipSetName(Name(p)) => p \notin watches)
    /\ [][/\ \A p \in probes \ probes' :
               IF ProbePasses(p)
               THEN p \in watches' \/ wprobed'[p] = "failed"
               ELSE watches' = watches
           /\ (probes' \ probes # {}) =>
                 (wpc' = "select" /\ watches' = watches)]_vars
    /\ \A p \in NewDirs : (p \in probes) ~> (p \notin probes)

(* the probe of the new directory a/b has registered it, and the Handler   *)
(* has been called for the file a/b/y created in it after that             *)
C21_Witness ==
    /\ <<"a", "b">> \in DOMAIN wprobed /\ wprobed[<<"a", "b">>] = "added"
    /\ <<"a", "b">> \in watches
    /\ \E i \in 1..Len(wcalls) : wcalls[i].path = <<"a", "b", "y">>

(* component d takes the next step of the invocation it is in; component *)
(* d starts an invocation                                                  *)
StepOf(d) ==
    /\ \/ HandlerHas \/ HandlerShouldIgnore \/ HandlerIsIgnored
       \/ HandlerAddIgnored \/ HandlerSetIgnored \/ HandlerAdd
    /\ hpc'[d] # hpc[d]
StartOf(d) == HandlerCall /\ hpc'[d] = "Has"

----------------------------------------------------------------------------
(* Properties of the dedup cache, checked under SpecC. *)

(* C23: Cache.Has(path, info) answers true exactly when the cache holds an *)
(* entry for path whose age is at most the TTL and whose inode and         *)
(* modification time are those of info.  Hence, with respect to the last   *)
(* Add(path, info0) that no Remove(path) followed: a lookup with info0 no  *)
(* later than TTL after the Add is true, a lookup later than that is       *)
(* false, a lookup with another modification time is false, and so is a    *)
(* lookup of a path never added or removed since.                          *)
C23_CacheLookup ==
    [][\A p \in CPaths, info \in CInfos :
          ClientHas(p, info) =>
             /\ clook'.ret <=> /\ p \in DOMAIN cache
                               /\ now - cache[p].Added <= TTL
                               /\ cache[p].Inode = info.ino
                               /\ cache[p].Mtime = info.mtime
             /\ IF p \in DOMAIN cadds
                THEN /\ (cadds[p].info = info /\ now - cadds[p].at <= TTL)
                            => clook'.ret
                     /\ now - cadds[p].at > TTL => ~clook'.ret
                     /\ cadds[p].info.mtime # info.mtime => ~clook'.ret
                     /\ cadds[p].info.ino # info.ino => ~clook'.ret
                ELSE ~clook'.ret]_vars

(* a lookup made exactly TTL after the Add, with the FileInfo that was     *)
(* added, has answered true                                                 *)
C23_Witness ==
    /\ clook.ret
    /\ clook.path \in DOMAIN cadds
    /\ cadds[clook.path].info = clook.info
    /\ clook.at - cadds[clook.path].at = TTL


----------------------------------------------------------------------------
(* Dry run, checked under SpecH. *)

(* C24: with dryRun set, no invocation of the Handler, by the Scanner or   *)
(* by the Watcher, calls SetIgnored: the step that would call it only logs *)
(* and goes on to cache.Add, and no step at all changes the attribute      *)
(* store, which stays as it was when the Handler was created.              *)
C24_DryRunNoChanges ==
    [][dryRun =>
          /\ xattr' = xattr /\ hsets' = hsets
          /\ \A c \in Comp :
                (hpc[c] = "SetIgnored" /\ hpc'[c] # "SetIgnored")
                    => hpc'[c] = "Add" /\ nfail' = nfail]_vars

(* under dryRun both components have gone through the branch that would   *)
(* have set the attribute, for a matching directory and a matching file    *)
C24_Witness ==
    /\ dryRun
    /\ xattr = {}
    /\ hdone["scanner"][<<"node_modules">>] > 0
    /\ hdone["watcher"][<<"a", "x.log">>] > 0
    /\ {<<"node_modules">>, <<"a", "x.log">>} \subseteq DOMAIN cache


----------------------------------------------------------------------------
(* The directory-fingerprint table, checked under SpecP. *)

(* C25 as stated: when a Scan is over, a directory has an entry in         *)
(* p.dirModTime if and only if that Scan visited it.                       *)
C25_FingerprintIffVisited ==
    ScanDone =>
       \A D \in Dirs : D \in DOMAIN dirModTime <=> D \in visitedDirs

(* the Scan stopped at D without reaching the fingerprint step: the        *)
(* Handler answered ErrSkipDir, or the name is one Scan does not descend   *)
(* into                                                                     *)
PrunedEarly(D) == D \in pskipRet \/ PollerSkipsName(Name(D))

(* C25, amended: when a Scan is over, every directory with an entry in     *)
(* p.dirModTime was visited by that Scan.  The first Scan records nothing. *)
(* A later Scan leaves an entry for every directory it called the Handler  *)
(* for, unless the Handler answered ErrSkipDir or the name is skipped; for *)
(* those, and for a directory that had vanished when it was visited, it    *)
(* records nothing: a visited directory of that kind has the entry it had  *)
(* before the Scan, or none.                                                *)
C25_FingerprintOfDescendedDirs ==
    ScanDone =>
       /\ DOMAIN dirModTime \subseteq visitedDirs
       /\ lastScanL = 0 => dirModTime = << >>
       /\ lastScanL # 0 =>
             \A D \in visitedDirs :
                IF D \in Handled /\ ~PrunedEarly(D)
                THEN /\ D \in DOMAIN dirModTime
                     /\ pquiet => dirModTime[D] = fs[D].mtime
                ELSE /\ D \in DOMAIN dirModTime <=> D \in DOMAIN dirModTimeL
                     /\ D \in DOMAIN dirModTime
                           => dirModTime[D] = dirModTimeL[D]

(* a Scan after the first is over: the root has an entry, a (the Handler   *)
(* answered ErrSkipDir) and node_modules (in the skip set) were visited    *)
(* and have none                                                            *)
C25_Witness ==
    /\ ScanDone /\ nscan >= 2
    /\ Root \in DOMAIN dirModTime
    /\ <<"a">> \in visitedDirs /\ <<"a">> \in pskipRet
    /\ <<"a">> \notin DOMAIN dirModTime
    /\ <<"node_modules">> \in visitedDirs
    /\ <<"node_modules">> \notin DOMAIN dirModTime


(* the walk function is being called for the entry at the head of todo *)
WalkReaches(p) ==
    /\ ppc = "walk" /\ todo # << >> /\ Head(todo) = p
    /\ todo' # todo

(* C26: when the walk of a Scan that is not the first reaches a regular    *)
(* file (one that is still there), the Handler is called for it if and     *)
(* only if its modification time is not earlier than the start of the      *)
(* previous Scan, equality included; when a walk reaches a directory (one  *)
(* that is still there), the Handler is called for it whatever its         *)
(* modification time.                                                       *)
C26_FileMtimeGate ==
    [][\A p \in Paths :
          (WalkReaches(p) /\ Exists(p)) =>
             IF p \in Files
             THEN lastScanL # 0 =>
                     IF fs[p].mtime >= lastScanL
                     THEN phandled' = Append(phandled, p)
                     ELSE phandled' = phandled
             ELSE phandled' = Append(phandled, p)]_vars

(* the second Scan is over: it called the Handler for a/b/y, written at    *)
(* the very time the first Scan started, for the unchanged directories a   *)
(* and a/b, and not for a/x.log, which is older                            *)
C26_Witness ==
    /\ ScanDone /\ nscan = 2
    /\ fs[<<"a", "b", "y">>].mtime = lastScanL
    /\ <<"a", "b", "y">> \in Handled
    /\ fs[<<"a">>].mtime < lastScanL /\ <<"a">> \in Handled
    /\ fs[<<"a", "b">>].mtime < lastScanL /\ <<"a", "b">> \in Handled
    /\ Exists(<<"a", "x.log">>) /\ <<"a", "x.log">> \notin Handled


----------------------------------------------------------------------------
(* The pending buffer and its flush, checked under SpecW. *)

(* the notification Run is about to receive is an accepted one for p *)
Accepts(p) ==
    /\ WatcherRunEvent
    /\ Head(wevents).Name = p
    /\ IsRelevantOp(Head(wevents).Op)

(* C27: w.pending holds at most one event per path, filed under its own   *)
(* path; the event carries the kind and the receipt time of the latest     *)
(* accepted (Create, Write or Rename) notification for the path since the  *)
(* path last left the buffer: accepting a notification overwrites the      *)
(* entry with that notification's kind and the current time, and nothing   *)
(* else changes an entry short of the flush that removes it; the buffer    *)
(* changes only in handleEvent and flushPending, which hold w.mu.          *)
C27_PendingBuffer ==
    /\ [](\A p \in DOMAIN pending :
             /\ pending[p].Path = p
             /\ IsRelevantOp(pending[p].Op)
             /\ p \in DOMAIN wburst
             /\ pending[p].Time = wburst[p].last)
    /\ [][/\ \A p \in WPaths :
                IF Accepts(p)
                THEN /\ p \in DOMAIN pending'
                     /\ pending'[p] = [Path |-> p, Op |-> Head(wevents).Op,
                                       Time |-> now]
                ELSE (p \in DOMAIN pending /\ p \in DOMAIN pending')
                        => pending'[p] = pending[p]
          /\ \A p \in DOMAIN pending' \ DOMAIN pending : Accepts(p)
          /\ pending' # pending => LocksMu]_vars

(* a/b is pending as a Write received later than the Create that opened   *)
(* its entry                                                                *)
C27_Witness ==
    /\ <<"a", "b">> \in DOMAIN pending
    /\ pending[<<"a", "b">>].Op = {"Write"}
    /\ wburst[<<"a", "b">>].n >= 2
    /\ wburst[<<"a", "b">>].first < pending[<<"a", "b">>].Time


(* the entries that leave w.pending in a step *)
Removed == {p \in DOMAIN pending : p \notin DOMAIN pending'}

(* C28: an entry leaves w.pending only in a flush at which its age is at   *)
(* least the debounce duration, and goes into that flush's batch; every    *)
(* event of a batch is handed to the Handler in one invocation and leaves  *)
(* the batch with it, and Run is back at its select only when the batch is *)
(* empty.  So an entry is dispatched once: whatever was removed is in the  *)
(* batch or has been handed over, never both, never still buffered, and    *)
(* two Handler calls for one path are for entries stored at different      *)
(* times.                                                                   *)
C28_ExactlyOnceDispatch ==
    /\ [](/\ \A ev \in toProcess :
                /\ ev.Path \notin DOMAIN pending
                /\ \A ev2 \in toProcess : ev2.Path = ev.Path => ev2 = ev
          /\ wcur \notin toProcess
          /\ wcur # NoEvent => wcur.Path \notin DOMAIN pending
          /\ RunSelecting => (toProcess = {} /\ wcur = NoEvent)
          /\ \A p \in WPaths :
                /\ wopened[p] = Cardinality(CallsFor(p)) + InFlight(p)
                /\ \A i \in CallsFor(p), j \in CallsFor(p) :
                      i < j => wcalls[i].time < wcalls[j].time)
    /\ [][/\ \A p \in Removed :
                /\ WatcherRunFlush
                /\ now - pending[p].Time >= Debounce
                /\ pending[p] \in toProcess'
          /\ toProcess' # toProcess =>
                \/ WatcherRunFlush /\ toProcess' = {pending[p] : p \in Removed}
                \/ /\ HandlerStart
                   /\ wcur' \in toProcess /\ toProcess' = toProcess \ {wcur'}
                   /\ Len(wcalls') = Len(wcalls) + 1
                   /\ wcalls'[Len(wcalls')].path = wcur'.Path
                   /\ wcalls'[Len(wcalls')].time = wcur'.Time
          /\ Len(wcalls') # Len(wcalls) => HandlerStart]_vars

(* a/b was buffered, flushed and handed to the Handler twice, as two       *)
(* entries, and the loop is back at its select with nothing buffered       *)
C28_Witness ==
    /\ RunSelecting
    /\ wopened[<<"a", "b">>] = 2
    /\ Cardinality(CallsFor(<<"a", "b">>)) = 2
    /\ pending = << >>


----------------------------------------------------------------------------
(* The flush and its batch, checked under SpecF. *)

(* the Handler call that is executing returns *)
CallReturns == wpc = "handling" /\ wpc' # "handling"

(* C29: a flush removes from w.pending exactly the entries whose age is at *)
(* least the debounce duration and leaves the younger ones as they are,    *)
(* kind and time; and when a Handler call of a batch returns, with an      *)
(* error or without, the rest of the batch is untouched and the loop goes  *)
(* on to call the Handler for it: Run is back at its select only when the  *)
(* Handler has been called for every event of the batch.                   *)
C29_FlushFrame ==
    /\ [][WatcherRunFlush =>
             /\ Removed = {p \in DOMAIN pending :
                              now - pending[p].Time >= Debounce}
             /\ DOMAIN pending' = DOMAIN pending \ Removed
             /\ \A p \in DOMAIN pending' : pending'[p] = pending[p]]_vars
    /\ [][CallReturns =>
             /\ toProcess' = toProcess
             /\ pending' = pending
             /\ wpc' = IF toProcess = {} THEN "select" ELSE "batch"]_vars
    /\ [][wpc = "batch" =>
             /\ toProcess # {}
             /\ wpc' # wpc => HandlerStart]_vars

(* two events of one batch have gone to the Handler, the first call having *)
(* returned an error                                                        *)
C29_Witness ==
    \E j \in 1..Len(wcalls), k \in 1..Len(wcalls) :
       /\ k = j + 1
       /\ wcalls[j].err = "err"
       /\ wcalls[k].at = wcalls[j].at
       /\ wcalls[k].time + Debounce <= wcalls[j].at
       /\ wcalls[k].path # wcalls[j].path
       /\ RunSelecting


----------------------------------------------------------------------------
(* Run's select, checked under SpecR. *)

(* Run receives a notification whose kind has none of Create, Write and    *)
(* Rename                                                                   *)
Discards ==
    /\ WatcherRunEvent
    /\ Head(wevents).Op \cap {"Create", "Write", "Rename"} = {}

(* C31: receiving a notification whose kind contains none of Create, Write *)
(* and Rename changes neither w.pending nor the watch set, starts no probe *)
(* and puts nothing into a batch, and every Handler call is for an entry   *)
(* made of accepted notifications only; receiving an error of the          *)
(* notification source changes nothing but the Errors channel, and Run     *)
(* stays in its loop.                                                       *)
C31_IrrelevantDiscarded ==
    /\ [](\A i \in 1..Len(wcalls) :
             /\ wcalls[i].n >= 1
             /\ wcalls[i].path \in {ev.Name : ev \in {e \in RawEvents :
                                       e.Op \cap {"Create", "Write", "Rename"} # {}}})
    /\ [][/\ Discards =>
                /\ UNCHANGED <<pending, watches, probes, toProcess, wcalls,
                               wburst, wopened, wcur>>
                /\ wpc' = "select" /\ wret' = wret
          /\ WatcherRunError =>
                /\ UNCHANGED <<pending, watches, probes, toProcess, wcalls,
                               wburst, wopened, wcur, wevents, tickC>>
                /\ wpc' = "select" /\ wret' = wret]_vars

(* Run has received a Remove notification, the only notification so far,   *)
(* and is at its select with nothing buffered and no Handler call made      *)
C31_Witness ==
    /\ wpc = "select"
    /\ wsent = 1 /\ wevents = << >>
    /\ pending = << >> /\ probes = {} /\ wcalls = << >>
    /\ \A p \in WPaths : wopened[p] = 0
    /\ werrs > 0


----------------------------------------------------------------------------
(* AddRecursive, checked under SpecA. *)

(* the directory names of the model: those of the tree, of the roots, of   *)
(* the default skip set, and "."                                            *)
DirNames ==
    {d[Len(d)] : d \in Dirs \ {Root}} \cup RootNames \cup DefaultSkipDirs
        \cup DottedNames

(* C32: when AddRecursive has returned, every directory that is there,     *)
(* that neither has a name of the skip rule nor lies below a directory     *)
(* that has one, and whose w.Add did not fail is watched, and no directory *)
(* that has such a name or lies below one is watched; and the names        *)
(* AddRecursive skips are the names the Poller skips with its default      *)
(* skip set.                                                                *)
C32_AddRecursiveWatchSet ==
    /\ addrec.pc = "done" =>
          \A d \in Dirs :
             /\ (Exists(d) /\ Eligible(d) /\ d \notin addrec.failed)
                   => d \in watches
             /\ d \in watches =>
                   /\ d \notin addrec.failed
                   /\ Name(d) \notin DefaultSkipDirs /\ Name(d) \notin DottedNames \ {"."}
                   /\ \A e \in Dirs :
                         IsBelow(d, e) =>
                            /\ Name(e) \notin DefaultSkipDirs
                            /\ Name(e) \notin DottedNames \ {"."}
    /\ \A name \in DirNames :
          AddRecursiveSkipsName(name) <=>
             (name \in DefaultSkipDirs \/ (HasDotPrefix(name) /\ name # "."))

(* AddRecursive has returned under a root with a plain name: the root, a   *)
(* and a/b are watched, node_modules and .idea are there and are not       *)
C32_Witness ==
    /\ addrec.pc = "done" /\ rootName = "r"
    /\ {Root, <<"a">>, <<"a", "b">>} \subseteq watches
    /\ Exists(<<"node_modules">>) /\ <<"node_modules">> \notin watches
    /\ Exists(<<".idea">>) /\ <<".idea">> \notin watches


----------------------------------------------------------------------------
(* The Handler's answer for a tagged directory, checked under SpecH. *)

(* the invocation of component c returns in this step *)
Returns(c) == hpc[c] # "idle" /\ hpc'[c] = "idle"

(* C34 as stated: an invocation for a directory that matches the ignore    *)
(* patterns and carries the attribute when the invocation returns answers  *)
(* ErrSkipDir (stated for the runs in which neither the matcher nor the    *)
(* attribute store has failed).                                             *)
C34_TaggedDirectorySkipped ==
    [][\A c \in Comp :
          (/\ Returns(c)
           /\ nfail' = 0
           /\ IsDir(hpath[c]) /\ MatcherMatches(hpath[c])
           /\ hpath[c] \in xattr')
             => Return(c, "skip")]_vars

----------------------------------------------------------------------------
(* When the fingerprint table starts to be written, checked under SpecP. *)

(* the walk step at directory D ends with filepath.SkipDir before the      *)
(* fingerprint step: the Handler answered ErrSkipDir at this step, or the  *)
(* name of D is one Scan does not descend into                              *)
PrunesBeforeFingerprint(D) ==
    D \in pskipRet' \/ Name(D) \in skipDirs
       \/ (HasDotPrefix(Name(D)) /\ Name(D) # ".")

(* C35: the table is empty until the first Scan has returned.  In the      *)
(* second Scan no directory is pruned by the fingerprint test: a directory *)
(* the walk reaches (and that is still there) is read, and gets its        *)
(* modification time as its entry, unless the Handler answers ErrSkipDir   *)
(* or its name is skipped.  A walk step of any Scan that prunes a          *)
(* directory for one of those two reasons writes nothing to the table, and *)
(* a walk step writes an entry only for the directory it descends into.    *)
C35_RecordingStartsWithSecondScan ==
    /\ [](nscan <= 1 => dirModTime = << >>)
    /\ [][\A D \in Dirs :
             WalkReaches(D) =>
                /\ (nscan = 2 /\ Exists(D) /\ ~PrunesBeforeFingerprint(D))
                      => /\ todo' = ReadDir(D) \o Tail(todo)
                         /\ D \in DOMAIN dirModTime'
                         /\ dirModTime'[D] = fs[D].mtime
                /\ PrunesBeforeFingerprint(D)
                      => /\ dirModTime' = dirModTime
                         /\ todo' = Tail(todo)
                /\ \A E \in Dirs \ {D} :
                      /\ E \in DOMAIN dirModTime' <=> E \in DOMAIN dirModTime
                      /\ E \in DOMAIN dirModTime
                            => dirModTime'[E] = dirModTime[E]
                /\ dirModTime' # dirModTime
                      => todo' = ReadDir(D) \o Tail(todo)]_vars

(* the second Scan is over: it read the root and a and recorded them; it   *)
(* pruned a/b (ErrSkipDir) and node_modules (skip set) and recorded        *)
(* neither                                                                  *)
C35_Witness ==
    /\ ScanDone /\ nscan = 2
    /\ {Root, <<"a">>} \subseteq DOMAIN dirModTime
    /\ <<"a", "b">> \in pskipRet
    /\ <<"a", "b">> \notin DOMAIN dirModTime
    /\ <<"node_modules">> \in visitedDirs
    /\ <<"node_modules">> \notin DOMAIN dirModTime
    /\ <<"a", "b", "y">> \notin Handled



----------------------------------------------------------------------------
(* Dispatch, checked under SpecL. *)

(* the Handler has been entered for the entry of path p stored at time t *)
Dispatched(p, t) ==
    \E i \in 1..Len(wcalls) : wcalls[i].path = p /\ wcalls[i].time = t

(* a later notification for p has replaced the entry stored at time t     *)
(* while it was in w.pending                                               *)
Superseded(p, t) ==
    /\ p \in DOMAIN pending /\ pending[p].Time # t
    /\ ~\E ev \in toProcess : ev.Path = p /\ ev.Time = t
    /\ ~(wcur # NoEvent /\ wcur.Path = p /\ wcur.Time = t)

(* C36: an entry of w.pending stored early enough for a flush tick of the  *)
(* modelled window to find it due is passed to the Handler at last, unless *)
(* a later notification for its path replaces it first or Run's context is *)
(* cancelled.                                                               *)
C36_DispatchLiveness ==
    \A p \in {ev.Name : ev \in RawEvents} :
       \A t \in 0..(MaxLiveTime - Debounce - FlushInterval) :
          (p \in DOMAIN pending /\ pending[p].Time = t)
             ~> (Dispatched(p, t) \/ Superseded(p, t) \/ cancelled)

(* an entry stored at time 1, between two ticks, and one stored at time 0  *)
(* have both reached the Handler, and Run was not cancelled                 *)
C36_Witness ==
    /\ ~cancelled /\ wpc = "select"
    /\ Dispatched(<<"a", "b">>, 1)
    /\ Dispatched(<<"node_modules">>, 0)

----------------------------------------------------------------------------
(* How Run ends, checked under SpecR. *)

(* Run returns at this step *)
RunExits == wpc # "done" /\ wpc' = "done"

(* C37: Run returns only from its select, with no batch in progress: with  *)
(* the context's error only if the context is cancelled, with nil only if  *)
(* the source's channels are closed, and with nothing else (when both hold *)
(* either is possible).  The returning step leaves w.pending as it is and  *)
(* calls no Handler, and once Run has returned the buffer and the record   *)
(* of Handler calls never change: what is pending at exit stays pending.   *)
C37_RunExitPaths ==
    /\ [][RunExits =>
             /\ wpc = "select" /\ toProcess = {} /\ wcur = NoEvent
             /\ cancelled \/ wclosed
             /\ wret' = "Canceled" => cancelled
             /\ wret' = "nil" => wclosed
             /\ wret' \in {"Canceled", "nil"}
             /\ UNCHANGED <<pending, toProcess, wcur, wcalls, tickC>>]_vars
    /\ [][wpc = "done" =>
             /\ wpc' = "done" /\ wret' = wret
             /\ UNCHANGED <<pending, toProcess, wcur, wcalls>>]_vars

(* Close() was called while Run was waiting: Run has returned nil with a   *)
(* tick unread and an entry in w.pending that was due, and the Handler     *)
(* was never called                                                         *)
C37_Witness ==
    /\ wpc = "done" /\ wret = "nil" /\ wclosed /\ ~cancelled
    /\ tickC /\ DueNow # {}
    /\ wcalls = << >>

----------------------------------------------------------------------------
(* The lock of the skip set, checked under SpecK. *)

(* the walk function evaluates p.skipDirs[name] at this step: it was       *)
(* called for a directory that is there and the Handler did not answer     *)
(* ErrSkipDir, or the runtime stopped the read                              *)
ReadsSkipSet ==
    /\ WalkAtDir
    /\ \/ todo' # todo /\ Head(todo) \notin pskipRet'
       \/ ppc' = "crashed"

(* C38 as stated: p.skipDirs is read and written only under p.mu, so no    *)
(* step of Scan reads it while a call of SetSkipDir is between its Lock    *)
(* and its Unlock, and the process never dies of a concurrent map access.  *)
C38_SkipSetUnderLock ==
    /\ [](ppc # "crashed")
    /\ [][ReadsSkipSet => PMuFree]_vars

----------------------------------------------------------------------------
(* The reach of the Create probe, checked under SpecD. *)

(* C39: the watch set grows only by the probe of a received Create         *)
(* notification, and by the notified path alone: every step that changes   *)
(* it is a probe step that adds the one path it was started for.  So a     *)
(* directory below the root is watched only if a Create notification for   *)
(* that very directory was received and its probe registered it; one that  *)
(* was already there when the probe of its parent ran is not registered    *)
(* by that probe.                                                           *)
C39_ProbeNotRecursive ==
    /\ [](\A d \in watches \ {Root} :
             d \in DOMAIN wprobed /\ wprobed[d] = "added")
    /\ [][watches' # watches =>
             \E d \in probes :
                /\ CreateProbe
                /\ watches' = watches \cup {d}
                /\ probes' = probes \ {d}]_vars

(* a/b was made before the probe for a had registered a: a is watched,     *)
(* a/b is there and is not, and nothing is left that could register it     *)
C39_Witness ==
    /\ <<"a">> \in watches
    /\ Exists(<<"a", "b">>) /\ <<"a", "b">> \notin watches
    /\ probes = {} /\ wevents = << >>
    /\ <<"a", "b">> \notin DOMAIN wprobed

----------------------------------------------------------------------------
(* The Matcher's cache of compiled patterns, checked under SpecM. *)

(* the ignore file of directory d is the one that governs p: it is there,  *)
(* d is the directory of p or above it, and no directory between holds one *)
Governs(d, p) ==
    /\ ignf.content[d] # Absent
    /\ d = Parent(p) \/ IsBelow(Parent(p), d)
    /\ \A e \in IgnDirs :
          (IsBelow(e, d) /\ (e = Parent(p) \/ IsBelow(Parent(p), e)))
             => ignf.content[e] = Absent

(* the patterns m.cache holds for the ignore file of d, if any *)
Cached(c, d) == {c[i].pats : i \in {j \in 1..Len(c) : c[j].key = d}}

(* C40: a ShouldIgnore call for a path governed by an ignore file whose    *)
(* patterns are in m.cache answers from those patterns and leaves them in  *)
(* the cache, whatever the file holds now; a call that finds none loads    *)
(* the file as it is, answers from that and caches it.  While no ignore    *)
(* file has been written, every call, hit or miss, before or after         *)
(* ClearCache, gives the answer of the file's content.  The patterns       *)
(* cached for a file change or go only by ClearCache, by InvalidatePath of *)
(* that file, or by the eviction of the least recently used entry when a   *)
(* call caches another file in a full cache; writing the file leaves       *)
(* m.cache alone.                                                           *)
C40_PatternCacheStaleness ==
    /\ [][\A p \in MPaths : \A d \in IgnDirs :
             (ShouldIgnore(p) /\ Governs(d, p)) =>
                /\ mlook'.file = d
                /\ IF Cached(mcache, d) # {}
                   THEN /\ \A pats \in Cached(mcache, d) :
                              mlook'.ret = Answer(pats, d, p)
                        /\ Cached(mcache', d) = Cached(mcache, d)
                   ELSE /\ mlook'.ret =
                              Answer(LoadIgnoreFile(ignf.content[d]), d, p)
                        /\ Cached(mcache', d) = {LoadIgnoreFile(ignf.content[d])}
                /\ ignf.writes = 0
                      => mlook'.ret =
                            Answer(LoadIgnoreFile(ignf.content[d]), d, p)]_vars
    /\ [][\A d \in IgnDirs :
             (Cached(mcache, d) # {} /\ Cached(mcache', d) # Cached(mcache, d))
                => \/ ClearCache
                   \/ InvalidatePath(d)
                   \/ /\ \E p \in MPaths : ShouldIgnore(p)
                      /\ Len(mcache) = MatcherCacheSize
                      /\ mcache[1].key = d
                      /\ Cached(mcache', d) = {}
                      /\ Cached(mcache, mlook'.file) = {}]_vars
    /\ [][ignf' # ignf => mcache' = mcache]_vars

(* a stale answer: the last call hit the cache and said "ignore" for       *)
(* a/x.log, which the root's ignore file, rewritten since it was loaded,   *)
(* no longer lists; the cache is full                                       *)
C40_Witness ==
    /\ mlook.hit /\ mlook.path = <<"a", "x.log">> /\ mlook.file = Root
    /\ mlook.ret
    /\ ~Answer(LoadIgnoreFile(ignf.content[Root]), Root, <<"a", "x.log">>)
    /\ ignf.content[Root] # Absent
    /\ Len(mcache) = MatcherCacheSize


============================================================================
